---- MODULE Spec2Model ----
(***************************************************************************)
(* Model of the audio-cropper editing core: the ChunkManager               *)
(* (src/js/chunk-manager.js) and the AudioChunkingEditor that drives it    *)
(* (src/unnamed/part_002, imported by main.js as audio-cropper.js).        *)
(*                                                                         *)
(* Time is counted in ticks of 0.1 s, the unit of the editor's drag        *)
(* threshold and minimum selection width; one audio frame lasts            *)
(* TicksPerSample ticks, so Math.floor(time * sampleRate) is               *)
(* time \div TicksPerSample and a time need not be frame-aligned.          *)
(***************************************************************************)
EXTENDS Integers, Sequences, FiniteSets, TLC

VARIABLES
    chunks,               \* ChunkManager.chunks: sequence of [start, end, id]
    selectedChunk,        \* ChunkManager.selectedChunk (the chunk object, or NoChunk for null)
    nextChunkId,          \* ChunkManager.nextChunkId
    audioLen,             \* audioBuffer.length in frames; 0 while audioBuffer is null
    selection,            \* AudioChunkingEditor.selection: [start, end]
    seekPosition,         \* AudioChunkingEditor.seekPosition
    pausedAtTime,         \* AudioPlayer.pausedAtTime
    isDragging,
    dragStarted,
    justFinishedDrag,
    flagTimer,            \* the 10 ms setTimeout of handleMouseUp is pending
    initialClickTime,
    isResizing,
    resizeHandle,         \* "left", "right" or "none" (null)
    resizeHandlesVisible,
    resizeHandleTimeout,  \* the 800 ms setTimeout of scheduleResizeHandles is pending
    mouse,                \* where the held mouse button went down: "up", "canvas", "handle"
    clickDue,             \* time of the click event that follows a mouseup, or NoClick
    audioBuffer,          \* audioBuffer's channel data: a sequence of channels, each a sequence of samples
    isPlaying,            \* AudioPlayer.isPlaying
    playStartTime,        \* AudioPlayer.playStartTime
    currentTime,          \* audioContext.currentTime, in ticks
    isLooping,            \* AudioPlayer.isLooping
    source,               \* AudioPlayer.source and the closure of its onended handler
    currentlyPlayingChunk,
    playingChunks,
    isPlayingSelection,
    loopSelection,        \* AudioPlayer.loopSelection: null, the editor's selection object, or a replaced one
    ended,                \* ended events of stopped sources that are still to be delivered
    history,              \* HistoryManager.history: sequence of state snapshots
    currentIndex,         \* HistoryManager.currentIndex
    combinedBuffer,       \* the buffer last returned by createCombinedBuffer or createCombinedChunksBuffer
    mp3Worker,            \* AudioChunkingEditor.mp3Worker: 0 for null, else the number of the Worker object
    mp3WorkerReady,       \* AudioChunkingEditor.mp3WorkerReady
    encoder,              \* per Worker created, whether its global encoder is set
    requests,             \* the promises of sendMp3WorkerMessage, by request id
    toWorker,             \* ids of the messages posted to workers and not yet handled
    toMain,               \* messages posted by workers and not yet delivered
    initAwaits,           \* the request the running initMp3Worker call awaits, 0 for none
    export,               \* the running exportAudio call and the outcome of the last one
    exportConfirmDisabled, \* exportConfirm.disabled
    last                  \* the last operation, its arguments, result and the state before it

cmVars == <<chunks, selectedChunk, nextChunkId>>
plVars == <<isPlaying, playStartTime, currentTime, isLooping, source, currentlyPlayingChunk,
            playingChunks, isPlayingSelection, loopSelection, ended>>
edVars == <<audioLen, selection, seekPosition, pausedAtTime, isDragging, dragStarted,
            justFinishedDrag, flagTimer, initialClickTime, isResizing, resizeHandle,
            resizeHandlesVisible, resizeHandleTimeout, mouse, clickDue>>
hmVars == <<history, currentIndex>>
\* the state outside the editor, its ChunkManager and its AudioPlayer
exVars == <<mp3Worker, mp3WorkerReady, encoder, requests, toWorker, toMain, initAwaits,
            export, exportConfirmDisabled>>
svcVars == <<hmVars, combinedBuffer, exVars>>
vars == <<svcVars, chunks, selectedChunk, nextChunkId, audioLen, selection, seekPosition,
          pausedAtTime, isDragging, dragStarted, justFinishedDrag, flagTimer,
          initialClickTime, isResizing, resizeHandle, resizeHandlesVisible,
          resizeHandleTimeout, mouse, clickDue, audioBuffer, plVars, last>>

(***************************************************************************)
(* Bounds and program constants                                            *)
(***************************************************************************)
MaxDuration == 4
MaxFrames == 1
TicksPerSample == 2
ContainerWidth == 12
MinSelectionWidth == 1
DragThreshold == 1
GapWidth == 4
SampleUnit == 1000
TargetLinear == 708
MaxGain == 31623
NaN == 999999

NoChunk == [start |-> -1, end |-> -1, id |-> -1]
NoClick == -1

\* a buffer source node with the closure of its onended handler. state is "none"
\* (this.source is null), "unstarted" (created, start() not reached), "playing",
\* "stopped" or "finished"; endsAt is the clock time at which its buffer runs out.
\* chunks is the array the closure of playAllChunks holds: the ChunkManager's own
\* array while live, else the array as it was when the manager replaced it.
NoSource == [kind |-> "none", state |-> "none", start |-> 0, end |-> 0,
             chunks |-> <<>>, live |-> FALSE, endsAt |-> 0]

\* loopSelection: null, the editor's selection object ("live"), or a selection
\* object the editor has since replaced ("old")
NullSelection == [state |-> "null", start |-> 0, end |-> 0]

Min(a, b) == IF a <= b THEN a ELSE b
Max(a, b) == IF a >= b THEN a ELSE b
Abs(a) == IF a >= 0 THEN a ELSE 0 - a

RECURSIVE TotalDuration(_)
TotalDuration(cs) ==
    IF cs = <<>> THEN 0
    ELSE (Head(cs).end - Head(cs).start) + TotalDuration(Tail(cs))

(***************************************************************************)
(* ChunkManager                                                            *)
(***************************************************************************)
InitialChunks(duration) == << [start |-> 0, end |-> duration, id |-> 0] >>

\* the predicate of splitAtPosition's findIndex
SplitAcceptBoundary(c, splitTime) == splitTime >= c.start /\ splitTime <= c.end
SplitInside(c, splitTime) == splitTime > c.start /\ splitTime < c.end

\* Array.findIndex of the chunk strictly containing splitTime; 0 stands for -1
FindSplitIndex(cs, splitTime) ==
    LET hits == { i \in 1..Len(cs) : SplitInside(cs[i], splitTime) }
    IN  IF hits = {} THEN 0 ELSE CHOOSE i \in hits : \A j \in hits : i <= j

SplitLeft(c, splitTime, nid) == [start |-> c.start, end |-> splitTime, id |-> nid]

SplitRightSameId(c, splitTime, nid) == [start |-> splitTime, end |-> c.end, id |-> nid - 1]
SplitRight(c, splitTime, nid) == [start |-> splitTime, end |-> c.end, id |-> nid]

\* Array.splice(i, 1, l, r)
SpliceAppend(cs, i, l, r) ==
    SubSeq(cs, 1, i - 1) \o SubSeq(cs, i + 1, Len(cs)) \o <<l, r>>
Splice(cs, i, l, r) ==
    SubSeq(cs, 1, i - 1) \o <<l, r>> \o SubSeq(cs, i + 1, Len(cs))

\* the map callback of deleteTimeRange; NoChunk stands for the null it returns
DeleteMapNoShift(c, startTime, endTime) ==
    LET d == endTime - startTime IN
    IF c.start >= endTime THEN c
    ELSE IF c.end <= startTime THEN c
    ELSE IF c.start >= startTime /\ c.end <= endTime THEN NoChunk
    ELSE IF c.start < startTime /\ c.end > endTime THEN [c EXCEPT !.end = c.end - d]
    ELSE IF c.start < startTime /\ c.end > startTime THEN [c EXCEPT !.end = startTime]
    ELSE IF c.start < endTime /\ c.end > endTime
         THEN [c EXCEPT !.start = startTime, !.end = c.end - d]
    ELSE c
DeleteMapKeepStart(c, startTime, endTime) ==
    LET d == endTime - startTime IN
    IF c.start >= endTime THEN [c EXCEPT !.start = c.start - d, !.end = c.end - d]
    ELSE IF c.end <= startTime THEN c
    ELSE IF c.start >= startTime /\ c.end <= endTime THEN NoChunk
    ELSE IF c.start < startTime /\ c.end > endTime THEN [c EXCEPT !.end = c.end - d]
    ELSE IF c.start < startTime /\ c.end > startTime THEN [c EXCEPT !.end = startTime]
    ELSE IF c.start < endTime /\ c.end > endTime THEN [c EXCEPT !.end = c.end - d]
    ELSE c
DeleteMapTruncateContaining(c, startTime, endTime) ==
    LET d == endTime - startTime IN
    IF c.start >= endTime THEN [c EXCEPT !.start = c.start - d, !.end = c.end - d]
    ELSE IF c.end <= startTime THEN c
    ELSE IF c.start >= startTime /\ c.end <= endTime THEN NoChunk
    ELSE IF c.start < startTime /\ c.end > startTime THEN [c EXCEPT !.end = startTime]
    ELSE IF c.start < endTime /\ c.end > endTime
         THEN [c EXCEPT !.start = startTime, !.end = c.end - d]
    ELSE c
DeleteMap(c, startTime, endTime) ==
    LET d == endTime - startTime IN
    IF c.start >= endTime THEN [c EXCEPT !.start = c.start - d, !.end = c.end - d]
    ELSE IF c.end <= startTime THEN c
    ELSE IF c.start >= startTime /\ c.end <= endTime THEN NoChunk
    ELSE IF c.start < startTime /\ c.end > endTime THEN [c EXCEPT !.end = c.end - d]
    ELSE IF c.start < startTime /\ c.end > startTime THEN [c EXCEPT !.end = startTime]
    ELSE IF c.start < endTime /\ c.end > endTime
         THEN [c EXCEPT !.start = startTime, !.end = c.end - d]
    ELSE c

RECURSIVE MapDelete(_, _, _)
MapDelete(cs, startTime, endTime) ==
    IF cs = <<>> THEN <<>>
    ELSE <<DeleteMap(Head(cs), startTime, endTime)>> \o MapDelete(Tail(cs), startTime, endTime)

DeletedChunks(cs, startTime, endTime) ==
    SelectSeq(MapDelete(cs, startTime, endTime), LAMBDA c : c # NoChunk)

HasId(cs, id) == \E i \in 1..Len(cs) : cs[i].id = id

\* selectedChunk after deleteTimeRange: cleared when no chunk with its id is left
SelectedAfterDelete(sel, cs) ==
    IF sel # NoChunk /\ ~HasId(cs, sel.id) THEN NoChunk ELSE sel

\* selectChunkAtPosition: chunkWidth = availableWidth * duration / total, compared
\* after multiplying both sides by total (exact, no rounding)
RECURSIVE ScaledX(_, _, _)
ScaledX(cs, i, availableWidth) ==
    IF i = 1 THEN 0
    ELSE ScaledX(cs, i - 1, availableWidth)
         + availableWidth * (cs[i-1].end - cs[i-1].start)
         + GapWidth * TotalDuration(cs)

ChunkAtPixel(cs, pixelX, containerWidth) ==
    LET total == TotalDuration(cs)
        availableWidth == containerWidth - Max(0, Len(cs) - 1) * GapWidth
        hits == { i \in 1..Len(cs) :
                    /\ pixelX * total >= ScaledX(cs, i, availableWidth)
                    /\ pixelX * total <= ScaledX(cs, i, availableWidth)
                                         + availableWidth * (cs[i].end - cs[i].start) }
    IN  IF Len(cs) <= 1 \/ hits = {} THEN 0
        ELSE CHOOSE i \in hits : \A j \in hits : i <= j

\* WaveformRenderer at zoom level 1, where the visible range is [0, duration] and
\* holds every chunk whole. getPixelPositionForTime gives the pixel multiplied by
\* the total visible duration (exact, no rounding); NotVisible is its return of -1.
NotVisible == -1

\* getPixelPositionForTime with a chunk owning its start and not its end
getPixelPositionHalfOpen(cs, time, canvasWidth, duration) ==
    LET visibleChunks == SelectSeq(cs, LAMBDA c : c.end > 0 /\ c.start < duration)
        availableWidth == canvasWidth - Max(0, Len(visibleChunks) - 1) * GapWidth
        hits == { i \in 1..Len(visibleChunks) :
                    time >= visibleChunks[i].start /\ time < visibleChunks[i].end }
    IN  IF time < 0 \/ time > duration \/ Len(visibleChunks) = 0 THEN NotVisible
        ELSE IF hits = {} THEN 0
        ELSE LET i == CHOOSE h \in hits : \A j \in hits : h <= j
             IN  ScaledX(visibleChunks, i, availableWidth)
                 + availableWidth * (time - visibleChunks[i].start)

getPixelPositionForTime(cs, time, canvasWidth, duration) ==
    LET visibleChunks == SelectSeq(cs, LAMBDA c : c.end > 0 /\ c.start < duration)
        availableWidth == canvasWidth - Max(0, Len(visibleChunks) - 1) * GapWidth
        hits == { i \in 1..Len(visibleChunks) :
                    time >= visibleChunks[i].start /\ time <= visibleChunks[i].end }
    IN  IF time < 0 \/ time > duration \/ Len(visibleChunks) = 0 THEN NotVisible
        ELSE IF hits = {} THEN 0
        ELSE LET i == CHOOSE h \in hits : \A j \in hits : h <= j
             IN  ScaledX(visibleChunks, i, availableWidth)
                 + availableWidth * (time - visibleChunks[i].start)

\* getTimeFromPixelPosition: the time multiplied by availableWidth (exact)
getTimeFromPixelPosition(cs, pixelX, canvasWidth, duration) ==
    LET visibleChunks == SelectSeq(cs, LAMBDA c : c.end > 0 /\ c.start < duration)
        total == TotalDuration(visibleChunks)
        availableWidth == canvasWidth - Max(0, Len(visibleChunks) - 1) * GapWidth
        hits == { i \in 1..Len(visibleChunks) :
                    /\ pixelX * total >= ScaledX(visibleChunks, i, availableWidth)
                    /\ pixelX * total <= ScaledX(visibleChunks, i, availableWidth)
                          + availableWidth * (visibleChunks[i].end - visibleChunks[i].start) }
    IN  IF hits = {} THEN 0
        ELSE LET i == CHOOSE h \in hits : \A j \in hits : h <= j
             IN  visibleChunks[i].start * availableWidth
                 + pixelX * total - ScaledX(visibleChunks, i, availableWidth)

NoLast == [op |-> "none", a |-> 0, b |-> 0, ok |-> FALSE,
           before |-> <<>>, beforeSelected |-> NoChunk, beforeNextId |-> 0]

Called(op, a, b, ok) ==
    [op |-> op, a |-> a, b |-> b, ok |-> ok,
     before |-> chunks, beforeSelected |-> selectedChunk, beforeNextId |-> nextChunkId]

\* ---- ChunkManager operations on their own ----
initializeChunks(duration) ==
    /\ chunks' = InitialChunks(duration)
    /\ selectedChunk' = NoChunk
    /\ nextChunkId' = 1

splitAtPosition(splitTime) ==
    LET i == FindSplitIndex(chunks, splitTime) IN
    IF i = 0
    THEN UNCHANGED cmVars
    ELSE /\ chunks' = Splice(chunks, i,
                             SplitLeft(chunks[i], splitTime, nextChunkId),
                             SplitRight(chunks[i], splitTime, nextChunkId + 1))
         /\ nextChunkId' = nextChunkId + 2
         /\ selectedChunk' = NoChunk

selectChunkAtPosition(pixelX, containerWidth) ==
    LET i == ChunkAtPixel(chunks, pixelX, containerWidth) IN
    /\ selectedChunk' = IF i = 0 THEN selectedChunk ELSE chunks[i]
    /\ UNCHANGED <<chunks, nextChunkId>>

deleteTimeRange(startTime, endTime) ==
    /\ chunks' = DeletedChunks(chunks, startTime, endTime)
    /\ selectedChunk' = SelectedAfterDelete(selectedChunk, DeletedChunks(chunks, startTime, endTime))
    /\ UNCHANGED nextChunkId

CMInitialize ==
    \E d \in 1..MaxDuration :
        /\ initializeChunks(d)
        /\ last' = Called("initializeChunks", d, 0, TRUE)
        /\ UNCHANGED edVars
        /\ UNCHANGED <<audioBuffer, plVars>>
        /\ UNCHANGED svcVars

CMSplit ==
    \E t \in 0..(MaxDuration + 1) :
        /\ splitAtPosition(t)
        /\ last' = Called("splitAtPosition", t, 0, FindSplitIndex(chunks, t) # 0)
        /\ UNCHANGED edVars
        /\ UNCHANGED <<audioBuffer, plVars>>
        /\ UNCHANGED svcVars

CMSelect ==
    \E x \in 0..ContainerWidth :
        /\ selectChunkAtPosition(x, ContainerWidth)
        /\ last' = Called("selectChunkAtPosition", x, ContainerWidth,
                          ChunkAtPixel(chunks, x, ContainerWidth) # 0)
        /\ UNCHANGED edVars
        /\ UNCHANGED <<audioBuffer, plVars>>
        /\ UNCHANGED svcVars

CMDelete ==
    \E s \in 0..MaxDuration : \E e \in (s + 1)..(MaxDuration + 1) :
        /\ deleteTimeRange(s, e)
        /\ last' = Called("deleteTimeRange", s, e, TRUE)
        /\ UNCHANGED edVars
        /\ UNCHANGED <<audioBuffer, plVars>>
        /\ UNCHANGED svcVars

\* the renderer's conversions over the chunk list, for a buffer of duration d that
\* holds every chunk and a canvas wider than the gaps between the chunks
CMPixelForTime ==
    \E d \in 1..MaxDuration : \E t \in 0..MaxDuration :
        /\ \A i \in 1..Len(chunks) : chunks[i].end <= d
        /\ ContainerWidth > Max(0, Len(chunks) - 1) * GapWidth
        /\ last' = Called("getPixelPositionForTime", t,
                          getPixelPositionForTime(chunks, t, ContainerWidth, d),
                          getPixelPositionForTime(chunks, t, ContainerWidth, d) # NotVisible)
        /\ UNCHANGED <<cmVars, edVars, audioBuffer, plVars>>
        /\ UNCHANGED svcVars

CMTimeForPixel ==
    \E d \in 1..MaxDuration : \E x \in 0..ContainerWidth :
        /\ \A i \in 1..Len(chunks) : chunks[i].end <= d
        /\ ContainerWidth > Max(0, Len(chunks) - 1) * GapWidth
        /\ last' = Called("getTimeFromPixelPosition", x,
                          getTimeFromPixelPosition(chunks, x, ContainerWidth, d), TRUE)
        /\ UNCHANGED <<cmVars, edVars, audioBuffer, plVars>>
        /\ UNCHANGED svcVars

\* no button held, no timer pending
PointerIdle ==
    /\ isDragging = FALSE
    /\ dragStarted = FALSE
    /\ justFinishedDrag = FALSE
    /\ flagTimer = FALSE
    /\ initialClickTime = 0
    /\ isResizing = FALSE
    /\ resizeHandle = "none"
    /\ resizeHandlesVisible = FALSE
    /\ resizeHandleTimeout = FALSE
    /\ mouse = "up"
    /\ clickDue = NoClick

\* new AudioPlayer(audioContext)
PlayerIdle ==
    /\ isPlaying = FALSE
    /\ playStartTime = 0
    /\ currentTime = 0
    /\ isLooping = FALSE
    /\ source = NoSource
    /\ currentlyPlayingChunk = NoChunk
    /\ playingChunks = <<>>
    /\ isPlayingSelection = FALSE
    /\ loopSelection = NullSelection
    /\ ended = {}

\* no exportAudio call is running
NoExport == [pc |-> "idle", req |-> 0, outcome |-> "none", buffer |-> <<>>,
             startFrame |-> 0, frameCount |-> 0, channels |-> <<>>, data |-> <<>>]

\* new HistoryManager(audioContext); no combined buffer has been built; the
\* constructor's this.mp3Worker = null and this.mp3WorkerReady = false
ServicesIdle ==
    /\ history = <<>>
    /\ currentIndex = -1
    /\ combinedBuffer = <<>>
    /\ mp3Worker = 0
    /\ mp3WorkerReady = FALSE
    /\ encoder = <<>>
    /\ requests = <<>>
    /\ toWorker = <<>>
    /\ toMain = <<>>
    /\ initAwaits = 0
    /\ export = NoExport
    /\ exportConfirmDisabled = FALSE

EdIdle ==
    /\ audioLen = 0
    /\ audioBuffer = <<>>
    /\ selection = [start |-> 0, end |-> 0]
    /\ seekPosition = 0
    /\ pausedAtTime = 0
    /\ PointerIdle
    /\ PlayerIdle
    /\ ServicesIdle

\* new ChunkManager(waveform) followed by initializeChunks(audioBuffer)
CMInit ==
    /\ \E d \in 1..MaxDuration : chunks = InitialChunks(d)
    /\ selectedChunk = NoChunk
    /\ nextChunkId = 1
    /\ last = NoLast
    /\ EdIdle

CMNext ==
    \/ CMInitialize
    \/ CMSplit
    \/ CMSelect
    \/ CMDelete
    \/ CMPixelForTime
    \/ CMTimeForPixel

CMSpec == CMInit /\ [][CMNext]_vars

(***************************************************************************)
(* AudioChunkingEditor                                                     *)
(***************************************************************************)
EmptySelection == [start |-> 0, end |-> 0]

\* audioBuffer.duration, in ticks
Duration == audioLen * TicksPerSample

\* Math.floor(time * sampleRate)
SampleOf(time) == time \div TicksPerSample

\* the times getTimeFromMousePosition can return: the zoomed layout maps the
\* canvas linearly onto [0, duration], the unzoomed one onto the chunk spans
Times == 0..Duration

ClampTime(time) == Max(0, Min(time, Duration))

HasSelection(sel) == sel.start # sel.end

\* hasSelection && clickTime >= selectionStart && clickTime <= selectionEnd
ClickInSelection(sel, clickTime) ==
    /\ HasSelection(sel)
    /\ clickTime >= Min(sel.start, sel.end)
    /\ clickTime <= Max(sel.start, sel.end)

\* the first chunk of the list whenever some chunk holds the time
ChunkAtTimeFirst(cs, clickTime) ==
    LET hits == { i \in 1..Len(cs) : clickTime >= cs[i].start /\ clickTime <= cs[i].end }
    IN  IF hits = {} THEN NoChunk ELSE cs[1]

\* chunks.find(chunk => clickTime >= chunk.start && clickTime <= chunk.end)
ChunkAtTime(cs, clickTime) ==
    LET hits == { i \in 1..Len(cs) : clickTime >= cs[i].start /\ clickTime <= cs[i].end }
    IN  IF hits = {} THEN NoChunk
        ELSE cs[CHOOSE i \in hits : \A j \in hits : i <= j]

\* showResizeHandles: the new value of resizeHandlesVisible
ShownHandles(sel, visible) ==
    IF sel.start = sel.end THEN visible
    ELSE IF Abs(sel.end - sel.start) < MinSelectionWidth THEN visible
    ELSE TRUE

\* scheduleResizeHandles: whether the 800 ms timer is pending afterwards
ScheduledHandles(sel) == Abs(sel.end - sel.start) >= MinSelectionWidth

\* AudioPlayer.stop(chunks): the start of the first chunk by start time, or 0
StopPosition(cs) ==
    IF Len(cs) > 0
    THEN LET i == CHOOSE k \in 1..Len(cs) : \A j \in 1..Len(cs) : cs[k].start <= cs[j].start
         IN  cs[i].start
    ELSE 0

\* deleteAudioRange: frame count of the new buffer
NewLength(len, startTime, endTime) == len - (SampleOf(endTime) - SampleOf(startTime))

\* audioContext.createBuffer raises NotSupportedError for a frame count below 1
CreateBufferOk(len) == len >= 1

\* deleteAudioRange: the playback position after the deletion
PausedAfterDelete(paused, startTime, endTime) ==
    IF paused >= startTime /\ paused <= endTime THEN startTime
    ELSE IF paused > endTime THEN paused - (endTime - startTime)
    ELSE paused

Edit(op, a, b, ok) ==
    [op |-> op, a |-> a, b |-> b, ok |-> ok,
     before |-> <<>>, beforeSelected |-> NoChunk, beforeNextId |-> 0]

(***************************************************************************)
(* Sample-range operations on the audio buffer (src/unnamed/part_002 and   *)
(* AudioUtils.normalizeAudio, src/unnamed/part_010). A sample is an        *)
(* integer count of 1/SampleUnit, so full scale 1.0 is SampleUnit; a       *)
(* product is rounded to the nearest unit as the Float32Array store rounds *)
(* to the nearest float. Sample i of the code is element i + 1 of a        *)
(* channel's sequence.                                                     *)
(***************************************************************************)
NumChannels(buf) == Len(buf)
FrameLength(buf) == IF Len(buf) = 0 THEN 0 ELSE Len(buf[1])

\* a buffer of n frames of digital silence, as createBuffer returns it
SilentBuffer(channels, n) == [c \in 1..channels |-> [i \in 1..n |-> 0]]

RoundDiv(n, d) ==
    IF n >= 0 THEN (2 * n + d) \div (2 * d) ELSE 0 - ((2 * (0 - n) + d) \div (2 * d))

\* deleteAudioRange: the two copy loops into the zero-filled new buffer
DeleteSamples(buf, startSample, endSample) ==
    LET samplesToDelete == endSample - startSample
        newLength == FrameLength(buf) - samplesToDelete
    IN  [c \in 1..NumChannels(buf) |->
            [i \in 1..newLength |->
                IF i <= startSample THEN buf[c][i]
                ELSE IF i + samplesToDelete <= FrameLength(buf)
                     THEN buf[c][i + samplesToDelete]
                     ELSE 0]]

\* i (counted from 0) lies in [startSample, endSample)
InRangeInclusive(i, startSample, endSample) == i >= startSample /\ i <= endSample
InRange(i, startSample, endSample) == i >= startSample /\ i < endSample

\* applySilenceEffect: copy, then zero the range
SilenceWholeBuffer(buf, startSample, endSample) ==
    [c \in 1..NumChannels(buf) |-> [i \in 1..FrameLength(buf) |-> 0]]
SilenceSamples(buf, startSample, endSample) ==
    [c \in 1..NumChannels(buf) |->
        [i \in 1..FrameLength(buf) |->
            IF InRange(i - 1, startSample, endSample) THEN 0 ELSE buf[c][i]]]

\* 0.5 * (1 - Math.cos(x * Math.PI)) for x = num / len, in units of 1/SampleUnit
SmoothCurve(num, len) ==
    IF num <= 0 THEN 0
    ELSE IF num >= len THEN SampleUnit
    ELSE IF 2 * num = len THEN 500
    ELSE IF 3 * num = len THEN 250
    ELSE IF 3 * num = 2 * len THEN 750
    ELSE IF 4 * num = len THEN 146
    ELSE IF 4 * num = 3 * len THEN 854
    ELSE IF 5 * num = len THEN 95
    ELSE IF 5 * num = 2 * len THEN 345
    ELSE IF 5 * num = 3 * len THEN 655
    ELSE IF 5 * num = 4 * len THEN 905
    ELSE IF 6 * num = len THEN 67
    ELSE IF 6 * num = 5 * len THEN 933
    ELSE (SampleUnit * num) \div len

\* applyFadeEffect: fadeMultiplier of sample i, in units of 1/SampleUnit
FadeMultiplierOneWay(i, startSample, fadeLength, type) ==
    SmoothCurve(i - startSample, fadeLength)
FadeMultiplier(i, startSample, fadeLength, type) ==
    IF type = "in" THEN SmoothCurve(i - startSample, fadeLength)
    ELSE SmoothCurve(fadeLength - (i - startSample), fadeLength)

\* applyFadeEffect: copy, then scale the range
FadeSamples(buf, startSample, endSample, type) ==
    [c \in 1..NumChannels(buf) |->
        [i \in 1..FrameLength(buf) |->
            IF InRange(i - 1, startSample, endSample)
            THEN RoundDiv(buf[c][i] * FadeMultiplier(i - 1, startSample,
                                                     endSample - startSample, type),
                          SampleUnit)
            ELSE buf[c][i]]]

\* ---- AudioUtils.normalizeAudio (src/unnamed/part_010) ----

\* the samples the analysis loop visits: every channel, i in [startSample, endSample)
RangeCells(buf, startSample, endSample) ==
    {<<c, i>> : c \in 1..NumChannels(buf),
                i \in {j \in 1..FrameLength(buf) : InRange(j - 1, startSample, endSample)}}

RECURSIVE SumOver(_, _)
SumOver(f, cells) ==
    IF cells = {} THEN 0
    ELSE LET x == CHOOSE y \in cells : TRUE
         IN  f[x] + SumOver(f, cells \ {x})

SumSquares(buf, startSample, endSample) ==
    LET cells == RangeCells(buf, startSample, endSample)
    IN  SumOver([x \in cells |-> buf[x[1]][x[2]] * buf[x[1]][x[2]]], cells)

SampleCount(buf, startSample, endSample) ==
    NumChannels(buf) * (endSample - startSample)

RECURSIVE MaxOver(_, _)
MaxOver(f, cells) ==
    IF cells = {} THEN 0
    ELSE LET x == CHOOSE y \in cells : TRUE
         IN  Max(f[x], MaxOver(f, cells \ {x}))

MaxAmplitude(buf, startSample, endSample) ==
    LET cells == RangeCells(buf, startSample, endSample)
    IN  MaxOver([x \in cells |-> Abs(buf[x[1]][x[2]])], cells)

\* Math.sqrt of a perfect square; the floor of the root otherwise
RECURSIVE SqrtBetween(_, _, _)
SqrtBetween(n, lo, hi) ==
    IF lo >= hi THEN lo
    ELSE LET mid == (lo + hi + 1) \div 2
         IN  IF mid * mid <= n THEN SqrtBetween(n, mid, hi) ELSE SqrtBetween(n, lo, mid - 1)

\* no mean of squares of samples exceeds the square of full scale
Sqrt(n) == SqrtBetween(n, 0, Min(n, SampleUnit))

\* the analysis loop reads a sample past the end of the channel data
ReadsPastEnd(buf, startSample, endSample) == endSample > FrameLength(buf)

\* wouldBePeak > targetLinear, that is maxAmplitude * (targetLinear / rms) >
\* targetLinear, that is maxAmplitude > rms, compared by the squares
PeakLimited(buf, startSample, endSample) ==
    LET m == MaxAmplitude(buf, startSample, endSample)
    IN  m * m * SampleCount(buf, startSample, endSample)
            > SumSquares(buf, startSample, endSample)

\* the gain before the cap, as a fraction num / den
UncappedGainRmsOnly(buf, startSample, endSample) ==
    [num |-> TargetLinear,
     den |-> Max(1, Sqrt(SumSquares(buf, startSample, endSample)
                         \div SampleCount(buf, startSample, endSample)))]
UncappedGain(buf, startSample, endSample) ==
    IF PeakLimited(buf, startSample, endSample)
    THEN [num |-> TargetLinear, den |-> MaxAmplitude(buf, startSample, endSample)]
    ELSE [num |-> TargetLinear,
          den |-> Sqrt(SumSquares(buf, startSample, endSample)
                       \div SampleCount(buf, startSample, endSample))]

\* normalizationFactor > maxGain
GainCapped(buf, startSample, endSample) ==
    LET g == UncappedGain(buf, startSample, endSample)
    IN  g.num * SampleUnit > MaxGain * g.den

NormalizationFactor(buf, startSample, endSample) ==
    IF GainCapped(buf, startSample, endSample)
    THEN [num |-> MaxGain, den |-> SampleUnit]
    ELSE UncappedGain(buf, startSample, endSample)

\* Math.max(-1, Math.min(1, x))
Clip(x) == Max(0 - SampleUnit, Min(SampleUnit, x))

\* nothing to scale: the copy is returned as it is
SilentRange(buf, startSample, endSample) ==
    \/ MaxAmplitude(buf, startSample, endSample) = 0
    \/ SampleCount(buf, startSample, endSample) = 0

NormalizeSamples(buf, startSample, endSample) ==
    IF SilentRange(buf, startSample, endSample) THEN buf
    ELSE LET g == NormalizationFactor(buf, startSample, endSample)
         IN  [c \in 1..NumChannels(buf) |->
                [i \in 1..FrameLength(buf) |->
                    IF ~InRange(i - 1, startSample, endSample) THEN buf[c][i]
                    ELSE IF ReadsPastEnd(buf, startSample, endSample) THEN NaN
                    ELSE Clip(RoundDiv(buf[c][i] * g.num, g.den))]]

(***************************************************************************)
(* AudioPlayer (src/unnamed/part_001, imported as audio-player.js)         *)
(***************************************************************************)
\* getCurrentPlaybackTime(); the variant reads pausedAtTime alone
getCurrentPlaybackTimeStale == pausedAtTime
getCurrentPlaybackTime ==
    IF ~isPlaying THEN pausedAtTime
    ELSE pausedAtTime + (currentTime - playStartTime)

\* frameCount = Math.floor(endTime * sampleRate) - Math.floor(startTime * sampleRate)
FrameCount(startTime, endTime) == SampleOf(endTime) - SampleOf(startTime)

\* the ended event a source owes: due now when stop() ends it, due at endsAt when
\* it is left playing behind a newer source
EndedEvent(src, at) ==
    [kind |-> src.kind, start |-> src.start, end |-> src.end,
     chunks |-> src.chunks, live |-> src.live, at |-> at]

\* this.source = ... : the node that was there is dropped, still playing if it was
Dropped(src, pend) ==
    IF src.state = "playing" THEN pend \cup {EndedEvent(src, src.endsAt)} ELSE pend

\* source.stop() on a started node ends it and queues its ended event
Stopped(src, pend) ==
    IF src.state = "playing" THEN pend \cup {EndedEvent(src, currentTime)} ELSE pend

\* an ended event is due: the current source has played to its end, or a source
\* that was stopped or replaced has one outstanding
EndedDue ==
    \/ source.state = "playing" /\ source.endsAt <= currentTime
    \/ \E e \in ended : e.at <= currentTime

\* a node that has ended: nothing reads what it played
EndedNode == [NoSource EXCEPT !.state = "stopped"]

\* source.stop() raises InvalidStateError on a node that was never started
StopThrows(src) == src.state = "unstarted"

\* [...chunks].sort((a, b) => a.start - b.start), a stable insertion sort
RECURSIVE InsertByStart(_, _)
InsertByStart(c, cs) ==
    IF cs = <<>> THEN <<c>>
    ELSE IF c.start < Head(cs).start THEN <<c>> \o cs
    ELSE <<Head(cs)>> \o InsertByStart(c, Tail(cs))

RECURSIVE SortByStart(_)
SortByStart(cs) ==
    IF cs = <<>> THEN <<>>
    ELSE InsertByStart(cs[Len(cs)], SortByStart(SubSeq(cs, 1, Len(cs) - 1)))

\* playAllChunks: the index of the chunk to start from (the for loop with its two
\* breaks); 0 when the loop ends without a break
StartChunkIndex(sorted, paused) ==
    LET hits == { i \in 1..Len(sorted) :
                    \/ (paused >= sorted[i].start /\ paused <= sorted[i].end)
                    \/ paused < sorted[i].start }
    IN  IF hits = {} THEN 0 ELSE CHOOSE i \in hits : \A j \in hits : i <= j

\* ---- AudioPlayer methods: each sets pausedAtTime and the player's fields other
\* than the clock and the loop flag. paused, src, pend and playing are pausedAtTime,
\* this.source, the undelivered ended events and isPlaying at the moment of the call. ----
playSelection(paused, sel, selState, src, pend, playing) ==
    LET startTime == Min(sel.start, sel.end)
        endTime == Max(sel.start, sel.end)
        frameCount == FrameCount(startTime, endTime)
        inside == paused >= startTime /\ paused <= endTime
        startOffset == IF inside THEN paused - startTime ELSE 0
    IN  IF ~CreateBufferOk(frameCount)
        THEN \* createBuffer throws after this.source was replaced
             /\ source' = [NoSource EXCEPT !.state = "unstarted"]
             /\ ended' = Dropped(src, pend)
             /\ pausedAtTime' = paused
             /\ isPlaying' = playing
             /\ UNCHANGED <<playStartTime, currentlyPlayingChunk, playingChunks,
                            isPlayingSelection, loopSelection>>
        ELSE /\ source' = [kind |-> "selection", state |-> "playing", start |-> startTime,
                           end |-> endTime, chunks |-> <<>>, live |-> FALSE,
                           endsAt |-> currentTime
                                      + Max(0, frameCount * TicksPerSample - startOffset)]
             /\ ended' = Dropped(src, pend)
             /\ pausedAtTime' = IF inside THEN paused ELSE startTime
             /\ playStartTime' = currentTime - startOffset
             /\ isPlaying' = TRUE
             /\ isPlayingSelection' = TRUE
             /\ loopSelection' = IF selState = "live" THEN [NullSelection EXCEPT !.state = "live"]
                                 ELSE [state |-> selState, start |-> sel.start,
                                       end |-> sel.end]
             /\ UNCHANGED <<currentlyPlayingChunk, playingChunks>>

playChunk(paused, chunk, src, pend, playing) ==
    LET frameCount == FrameCount(chunk.start, chunk.end)
        inside == paused >= chunk.start /\ paused <= chunk.end
        startOffset == IF inside THEN paused - chunk.start ELSE 0
    IN  IF ~CreateBufferOk(frameCount)
        THEN \* createChunkBuffer throws after this.source was replaced
             /\ source' = [NoSource EXCEPT !.state = "unstarted"]
             /\ ended' = Dropped(src, pend)
             /\ pausedAtTime' = paused
             /\ isPlaying' = playing
             /\ UNCHANGED <<playStartTime, currentlyPlayingChunk, playingChunks,
                            isPlayingSelection, loopSelection>>
        ELSE /\ source' = [kind |-> "chunk", state |-> "playing", start |-> chunk.start,
                           end |-> chunk.end, chunks |-> <<chunk>>, live |-> FALSE,
                           endsAt |-> currentTime
                                      + Max(0, frameCount * TicksPerSample - startOffset)]
             /\ ended' = Dropped(src, pend)
             /\ playStartTime' = currentTime
             /\ pausedAtTime' = chunk.start + startOffset
             /\ isPlaying' = TRUE
             /\ currentlyPlayingChunk' = chunk
             /\ loopSelection' = NullSelection
             /\ UNCHANGED <<playingChunks, isPlayingSelection>>

\* stop(chunks)
stop(cs, paused, src, pend, playing) ==
    IF StopThrows(src)
    THEN /\ pausedAtTime' = paused
         /\ isPlaying' = playing
         /\ source' = src
         /\ ended' = pend
         /\ UNCHANGED <<playStartTime, currentlyPlayingChunk, playingChunks,
                        isPlayingSelection, loopSelection>>
    ELSE /\ source' = IF src.state = "playing" THEN EndedNode ELSE src
         /\ ended' = Stopped(src, pend)
         /\ isPlaying' = FALSE
         /\ currentlyPlayingChunk' = NoChunk
         /\ playingChunks' = <<>>
         /\ isPlayingSelection' = FALSE
         /\ loopSelection' = NullSelection
         /\ pausedAtTime' = StopPosition(cs)
         /\ UNCHANGED playStartTime

\* playAllChunks(audioBuffer, chunks); live tells whether chunks is the
\* ChunkManager's current array
playAllChunks(paused, cs, live, src, pend, playing) ==
    IF Len(cs) = 0
    THEN stop(<<>>, paused, src, pend, playing)
    ELSE LET sortedChunks == SortByStart(cs)
             found == StartChunkIndex(sortedChunks, paused)
             startChunkIndex == IF found = 0 THEN 1 ELSE found
             first == sortedChunks[startChunkIndex]
             inside == found # 0 /\ paused >= first.start
             startOffset == IF inside THEN paused - first.start ELSE 0
             newPaused == IF found # 0 /\ ~inside THEN first.start ELSE paused
             rest == SubSeq(sortedChunks, startChunkIndex, Len(sortedChunks))
             totalFrames == SampleOf(TotalDuration(rest) - startOffset)
         IN  IF ~CreateBufferOk(totalFrames)
             THEN \* createCombinedChunksBuffer throws before this.source is replaced
                  /\ pausedAtTime' = newPaused
                  /\ isPlaying' = playing
                  /\ source' = src
                  /\ ended' = pend
                  /\ UNCHANGED <<playStartTime, currentlyPlayingChunk, playingChunks,
                                 isPlayingSelection, loopSelection>>
             ELSE /\ source' = [kind |-> "all", state |-> "playing",
                                start |-> sortedChunks[1].start, end |-> 0,
                                chunks |-> IF live THEN <<>> ELSE cs, live |-> live,
                                endsAt |-> currentTime + totalFrames * TicksPerSample]
                  /\ ended' = Dropped(src, pend)
                  /\ pausedAtTime' = newPaused
                  /\ playStartTime' = currentTime
                  /\ isPlaying' = TRUE
                  /\ currentlyPlayingChunk' = NoChunk
                  /\ playingChunks' = rest
                  /\ loopSelection' = NullSelection
                  /\ UNCHANGED isPlayingSelection

\* pause()
pause ==
    IF ~isPlaying \/ StopThrows(source)
    THEN UNCHANGED <<pausedAtTime, isPlaying, playStartTime, source, currentlyPlayingChunk,
                     playingChunks, isPlayingSelection, loopSelection, ended>>
    ELSE /\ source' = IF source.state = "playing" THEN EndedNode ELSE source
         /\ ended' = Stopped(source, ended)
         /\ pausedAtTime' = getCurrentPlaybackTime
         /\ isPlaying' = FALSE
         /\ currentlyPlayingChunk' = NoChunk
         /\ playingChunks' = <<>>
         /\ isPlayingSelection' = FALSE
         /\ UNCHANGED <<playStartTime, loopSelection>>

\* play(), past its isPlaying guard: the selection, else the selected chunk, else all chunks
play(paused, sel, src, pend, playing) ==
    IF HasSelection(sel) THEN playSelection(paused, sel, "live", src, pend, playing)
    ELSE IF selectedChunk # NoChunk THEN playChunk(paused, selectedChunk, src, pend, playing)
    ELSE playAllChunks(paused, chunks, TRUE, src, pend, playing)

\* seekToTime(time) of the editor with AudioPlayer.seekToTime: a playing source is
\* stopped and, once the handler has returned, play() starts again with the
\* selection sel the handler leaves. seekPosition is set by the caller.
seekToTime(time, sel) ==
    IF ~isPlaying
    THEN /\ pausedAtTime' = ClampTime(time)
         /\ UNCHANGED <<isPlaying, playStartTime, source, currentlyPlayingChunk, playingChunks,
                        isPlayingSelection, loopSelection, ended>>
    ELSE IF StopThrows(source)
    THEN UNCHANGED <<pausedAtTime, isPlaying, playStartTime, source, currentlyPlayingChunk,
                     playingChunks, isPlayingSelection, loopSelection, ended>>
    ELSE play(ClampTime(time), sel,
              IF source.state = "playing" THEN EndedNode ELSE source,
              Stopped(source, ended), FALSE)

\* the closures of playAllChunks keep the array the ChunkManager has replaced
FreezeChunks(src, cs) ==
    IF src.live THEN [src EXCEPT !.live = FALSE, !.chunks = cs] ELSE src

FrozenEvents(pend, cs) == { FreezeChunks(e, cs) : e \in pend }

\* loopSelection once the editor has replaced its selection object sel
OldSelection(loop, sel) ==
    IF loop.state = "live" THEN [state |-> "old", start |-> sel.start, end |-> sel.end]
    ELSE loop

\* the player's fields its methods set, pausedAtTime apart
playVars == <<isPlaying, playStartTime, source, currentlyPlayingChunk, playingChunks,
              isPlayingSelection, loopSelection, ended>>

pointerVars == <<isDragging, dragStarted, justFinishedDrag, flagTimer, initialClickTime,
                 isResizing, resizeHandle, mouse, clickDue>>
handleVars == <<resizeHandlesVisible, resizeHandleTimeout>>

\* handleFile, from the point where decodeAudioData has resolved
HandleFile ==
    \E n \in 1..MaxFrames :
        /\ clickDue = NoClick
        /\ ~EndedDue
        /\ audioLen' = n
        /\ pausedAtTime' = 0
        /\ seekPosition' = 0
        /\ selection' = EmptySelection
        /\ resizeHandlesVisible' = FALSE
        /\ resizeHandleTimeout' = FALSE
        /\ initializeChunks(n * TicksPerSample)
        /\ audioBuffer' = SilentBuffer(1, n)
        /\ isPlaying' = FALSE
        /\ loopSelection' = OldSelection(loopSelection, selection)
        /\ source' = FreezeChunks(source, chunks)
        /\ ended' = FrozenEvents(ended, chunks)
        /\ last' = Edit("handleFile", n, 0, TRUE)
        /\ UNCHANGED pointerVars
        /\ UNCHANGED <<playStartTime, currentTime, isLooping, currentlyPlayingChunk,
                       playingChunks, isPlayingSelection>>
        /\ UNCHANGED svcVars

\* handleWaveformClick, for the click event that follows a press and release on the canvas
HandleWaveformClick ==
    /\ clickDue # NoClick
    /\ clickDue' = NoClick
    /\ LET hit == ChunkAtTime(chunks, clickDue)
           selects == /\ ~justFinishedDrag
                      /\ Len(chunks) > 1
                      /\ ~ClickInSelection(selection, clickDue)
                      /\ hit # NoChunk
       IN  /\ selection' = IF selects THEN EmptySelection ELSE selection
           /\ resizeHandlesVisible' = IF selects THEN FALSE ELSE resizeHandlesVisible
           /\ resizeHandleTimeout' = IF selects THEN FALSE ELSE resizeHandleTimeout
           /\ selectedChunk' = IF selects THEN hit ELSE selectedChunk
           /\ last' = [Edit("click", selection.start, selection.end, selects)
                         EXCEPT !.beforeSelected = selectedChunk]
    /\ UNCHANGED <<chunks, nextChunkId, audioLen, seekPosition, pausedAtTime, isDragging,
                   dragStarted, justFinishedDrag, flagTimer, initialClickTime, isResizing,
                   resizeHandle, mouse>>
    /\ UNCHANGED <<audioBuffer, plVars>>
    /\ UNCHANGED svcVars

\* handleMouseDown(clickTime)
handleMouseDown(clickTime) ==
    IF isResizing
    THEN UNCHANGED <<selection, seekPosition, isDragging, dragStarted, initialClickTime,
                     resizeHandlesVisible, resizeHandleTimeout>>
    ELSE IF ClickInSelection(selection, clickTime)
    THEN /\ seekPosition' = clickTime
         /\ resizeHandlesVisible' =
               IF Abs(selection.end - selection.start) >= MinSelectionWidth
                  /\ ~resizeHandlesVisible
               THEN ShownHandles(selection, resizeHandlesVisible)
               ELSE resizeHandlesVisible
         /\ UNCHANGED <<selection, isDragging, dragStarted, initialClickTime,
                        resizeHandleTimeout>>
    ELSE /\ isDragging' = TRUE
         /\ dragStarted' = FALSE
         /\ selection' = [start |-> clickTime, end |-> clickTime]
         /\ seekPosition' = clickTime
         /\ resizeHandlesVisible' = FALSE
         /\ resizeHandleTimeout' = FALSE
         /\ initialClickTime' = clickTime

MouseDown ==
    \E t \in Times :
        /\ audioLen > 0
        /\ mouse = "up"
        /\ clickDue = NoClick
        /\ mouse' = "canvas"
        /\ handleMouseDown(t)
        /\ last' = Edit("mousedown", t, 0, ~isResizing /\ ClickInSelection(selection, t))
        /\ UNCHANGED <<chunks, selectedChunk, nextChunkId, audioLen, pausedAtTime,
                       justFinishedDrag, flagTimer, isResizing, resizeHandle, clickDue>>
        /\ UNCHANGED <<audioBuffer, plVars>>
        /\ UNCHANGED svcVars

\* the pointer is off the canvas only after a mouseleave, whose handleMouseUp has
\* ended any drag that was not shadowed by a resize
OffCanvas == ~isDragging \/ isResizing

\* handleResizeStart(event, handle): a press on a visible resize handle
HandleResizeStart ==
    \E h \in {"left", "right"} :
        /\ audioLen > 0
        /\ mouse = "up"
        /\ clickDue = NoClick
        /\ OffCanvas
        /\ resizeHandlesVisible
        /\ mouse' = "handle"
        /\ isResizing' = TRUE
        /\ resizeHandle' = h
        /\ last' = NoLast
        /\ UNCHANGED <<chunks, selectedChunk, nextChunkId, audioLen, selection, seekPosition,
                       pausedAtTime, isDragging, dragStarted, justFinishedDrag, flagTimer,
                       initialClickTime, resizeHandlesVisible, resizeHandleTimeout, clickDue>>
        /\ UNCHANGED <<audioBuffer, plVars>>
        /\ UNCHANGED svcVars

\* handleMouseMove(time), when its guard isDragging && !isResizing holds
DragStartsKeepChunk(sel, started) == sel
DragStartsClearChunk(sel, started) == IF started THEN NoChunk ELSE sel

handleMouseMove(time) ==
    LET starts  == ~dragStarted /\ Abs(time - initialClickTime) > DragThreshold
        started == dragStarted \/ starts
    IN  /\ dragStarted' = started
        /\ selectedChunk' = DragStartsClearChunk(selectedChunk, starts)
        /\ selection' = IF started THEN [selection EXCEPT !.end = time] ELSE selection
        /\ seekPosition' = IF started THEN Min(selection.start, time) ELSE time
        /\ pausedAtTime' = IF started THEN Min(selection.start, time) ELSE pausedAtTime

\* handleResizeMove(time), when its guard isResizing && audioBuffer holds
handleResizeMove(time) ==
    LET clampedTime == ClampTime(time) IN
    /\ selection' =
          IF resizeHandle = "left"
          THEN [selection EXCEPT !.start = Min(clampedTime, selection.end - MinSelectionWidth)]
          ELSE IF resizeHandle = "right"
          THEN [selection EXCEPT !.end = Max(clampedTime, selection.start + MinSelectionWidth)]
          ELSE selection

\* a mousemove event: the canvas listener runs handleMouseMove, the document
\* listener handleResizeMove; their guards exclude each other
MouseMove ==
    \E t \in Times :
        /\ audioLen > 0
        /\ clickDue = NoClick
        /\ IF isResizing
           THEN /\ handleResizeMove(t)
                /\ UNCHANGED <<selectedChunk, seekPosition, pausedAtTime, dragStarted>>
           ELSE IF isDragging
           THEN handleMouseMove(t)
           ELSE UNCHANGED <<selectedChunk, selection, seekPosition, pausedAtTime, dragStarted>>
        /\ last' = [Edit("mousemove", selection.start, selection.end, isDragging \/ isResizing)
                      EXCEPT !.beforeSelected = selectedChunk]
        /\ UNCHANGED <<chunks, nextChunkId, audioLen, isDragging, justFinishedDrag, flagTimer,
                       initialClickTime, isResizing, resizeHandle, resizeHandlesVisible,
                       resizeHandleTimeout, mouse, clickDue>>
        /\ UNCHANGED <<audioBuffer, plVars>>
        /\ UNCHANGED svcVars

\* endSelection: the normalized selection; the variant leaves it as dragged
EndSelectionAsDragged(sel) == sel
EndSelection(sel) ==
    IF sel.start > sel.end THEN [start |-> sel.end, end |-> sel.start] ELSE sel

\* handleMouseUp, when its guard isDragging && !isResizing holds; the seekToTime
\* it starts finishes (seekPosition = clamped time) before the next event
handleMouseUp ==
    IF ~dragStarted
    THEN LET inside == ClickInSelection(selection, initialClickTime) IN
         /\ seekToTime(initialClickTime, IF inside THEN selection ELSE EmptySelection)
         /\ seekPosition' = ClampTime(initialClickTime)
         /\ selection' = IF inside THEN selection ELSE EmptySelection
         /\ resizeHandlesVisible' = IF inside THEN resizeHandlesVisible ELSE FALSE
         /\ resizeHandleTimeout' = IF inside THEN resizeHandleTimeout ELSE FALSE
         /\ isDragging' = FALSE
         /\ dragStarted' = FALSE
         /\ UNCHANGED <<justFinishedDrag, flagTimer>>
    ELSE /\ selection' = EndSelection(selection)
         /\ seekPosition' = EndSelection(selection).start
         /\ pausedAtTime' = EndSelection(selection).start
         /\ resizeHandleTimeout' = ScheduledHandles(selection)
         /\ isDragging' = FALSE
         /\ justFinishedDrag' = TRUE
         /\ flagTimer' = TRUE
         /\ dragStarted' = FALSE
         /\ UNCHANGED resizeHandlesVisible
         /\ UNCHANGED playVars

\* handleResizeEnd, when its guard isResizing holds
handleResizeEnd ==
    /\ isResizing' = FALSE
    /\ resizeHandle' = "none"
    /\ seekPosition' = Min(selection.start, selection.end)
    /\ pausedAtTime' = Min(selection.start, selection.end)

dragVars == <<selection, seekPosition, pausedAtTime, isDragging, dragStarted,
              justFinishedDrag, flagTimer, resizeHandlesVisible, resizeHandleTimeout>>

\* a mouseup over the canvas: handleMouseUp (canvas listener), then handleResizeEnd
\* (document listener); a click follows when the button went down on the canvas,
\* and may follow (on the common ancestor) when it went down on a resize handle
MouseUp ==
    \E t \in Times, clicks \in BOOLEAN :
        /\ audioLen > 0
        /\ mouse # "up"
        /\ mouse' = "up"
        /\ mouse = "canvas" => clicks
        /\ clickDue' = IF clicks THEN t ELSE NoClick
        /\ IF isResizing
           THEN /\ handleResizeEnd
                /\ UNCHANGED <<selection, isDragging, dragStarted, justFinishedDrag, flagTimer,
                               resizeHandlesVisible, resizeHandleTimeout>>
                /\ UNCHANGED playVars
           ELSE IF isDragging
           THEN /\ handleMouseUp
                /\ UNCHANGED <<isResizing, resizeHandle>>
           ELSE UNCHANGED <<dragVars, isResizing, resizeHandle, playVars>>
        /\ last' = NoLast
        /\ UNCHANGED <<chunks, selectedChunk, nextChunkId, audioLen, initialClickTime>>
        /\ UNCHANGED <<audioBuffer, currentTime, isLooping>>
        /\ UNCHANGED svcVars

\* a mouseup elsewhere in the document: only handleResizeEnd runs, no click on the canvas
MouseUpOutside ==
    /\ audioLen > 0
    /\ mouse # "up"
    /\ OffCanvas
    /\ mouse' = "up"
    /\ IF isResizing
       THEN handleResizeEnd
       ELSE UNCHANGED <<isResizing, resizeHandle, seekPosition, pausedAtTime>>
    /\ last' = NoLast
    /\ UNCHANGED <<chunks, selectedChunk, nextChunkId, audioLen, selection, isDragging,
                   dragStarted, justFinishedDrag, flagTimer, initialClickTime,
                   resizeHandlesVisible, resizeHandleTimeout, clickDue>>
    /\ UNCHANGED <<audioBuffer, plVars>>
    /\ UNCHANGED svcVars

\* the button is released where the page gets no mouseup (a context menu or a
\* modal alert took the pointer): no handler runs
MouseUpLost ==
    /\ audioLen > 0
    /\ mouse # "up"
    /\ mouse' = "up"
    /\ last' = NoLast
    /\ UNCHANGED <<chunks, selectedChunk, nextChunkId, audioLen, selection, seekPosition,
                   pausedAtTime, isDragging, dragStarted, justFinishedDrag, flagTimer,
                   initialClickTime, isResizing, resizeHandle, resizeHandlesVisible,
                   resizeHandleTimeout, clickDue>>
    /\ UNCHANGED <<audioBuffer, plVars>>
    /\ UNCHANGED svcVars

\* mouseleave on the canvas: handleMouseUp
MouseLeave ==
    /\ audioLen > 0
    /\ clickDue = NoClick
    /\ isDragging /\ ~isResizing
    /\ handleMouseUp
    /\ last' = NoLast
    /\ UNCHANGED <<chunks, selectedChunk, nextChunkId, audioLen, initialClickTime,
                   isResizing, resizeHandle, mouse, clickDue>>
    /\ UNCHANGED <<audioBuffer, currentTime, isLooping>>
    /\ UNCHANGED svcVars

\* setTimeout(() => { this.justFinishedDrag = false; }, 10)
FlagTimeout ==
    /\ flagTimer
    /\ clickDue = NoClick
    /\ justFinishedDrag' = FALSE
    /\ flagTimer' = FALSE
    /\ last' = NoLast
    /\ UNCHANGED <<chunks, selectedChunk, nextChunkId, audioLen, selection, seekPosition,
                   pausedAtTime, isDragging, dragStarted, initialClickTime, isResizing,
                   resizeHandle, resizeHandlesVisible, resizeHandleTimeout, mouse, clickDue>>
    /\ UNCHANGED <<audioBuffer, plVars>>
    /\ UNCHANGED svcVars

\* the 800 ms timer of scheduleResizeHandles: showResizeHandles
HandlesTimeout ==
    /\ resizeHandleTimeout
    /\ clickDue = NoClick
    /\ resizeHandleTimeout' = FALSE
    /\ resizeHandlesVisible' = ShownHandles(selection, resizeHandlesVisible)
    /\ last' = NoLast
    /\ UNCHANGED <<chunks, selectedChunk, nextChunkId, audioLen, selection, seekPosition,
                   pausedAtTime, isDragging, dragStarted, justFinishedDrag, flagTimer,
                   initialClickTime, isResizing, resizeHandle, mouse, clickDue>>
    /\ UNCHANGED <<audioBuffer, plVars>>
    /\ UNCHANGED svcVars

\* a click outside the waveform: the document's mouseup listener (handleResizeEnd),
\* then handleDocumentClick
HandleDocumentClick ==
    /\ audioLen > 0
    /\ mouse = "up"
    /\ clickDue = NoClick
    /\ OffCanvas
    /\ IF isResizing
       THEN handleResizeEnd
       ELSE UNCHANGED <<isResizing, resizeHandle, seekPosition, pausedAtTime>>
    /\ selectedChunk' = NoChunk
    /\ last' = NoLast
    /\ UNCHANGED <<chunks, nextChunkId, audioLen, selection, isDragging, dragStarted,
                   justFinishedDrag, flagTimer, initialClickTime, resizeHandlesVisible,
                   resizeHandleTimeout, mouse, clickDue>>
    /\ UNCHANGED <<audioBuffer, plVars>>
    /\ UNCHANGED svcVars

\* handleKeyDown returns early until a file is loaded; a key never comes between
\* a mouseup and its click, and an ended event that is due is dispatched first
KeyEnabled == audioLen > 0 /\ clickDue = NoClick /\ ~EndedDue

\* Escape: stop(), then clearSelection()
KeyEscape ==
    /\ KeyEnabled
    /\ stop(chunks, pausedAtTime, source, ended, isPlaying)
    /\ IF StopThrows(source)
       THEN UNCHANGED <<selection, handleVars>>
       ELSE /\ selection' = EmptySelection
            /\ resizeHandlesVisible' = FALSE
            /\ resizeHandleTimeout' = FALSE
    /\ last' = Edit("stop", 0, 0, ~StopThrows(source))
    /\ UNCHANGED <<cmVars, audioLen, seekPosition, pointerVars>>
    /\ UNCHANGED <<audioBuffer, currentTime, isLooping>>
    /\ UNCHANGED svcVars

\* Cmd/Ctrl+S: splitAtPosition() at the seek position
KeySplit ==
    /\ KeyEnabled
    /\ splitAtPosition(seekPosition)
    /\ last' = [Edit("split", seekPosition, 0, FindSplitIndex(chunks, seekPosition) # 0)
                  EXCEPT !.beforeSelected = selectedChunk]
    /\ UNCHANGED edVars
    /\ UNCHANGED <<audioBuffer, plVars>>
    /\ UNCHANGED svcVars

\* deleteAudioRange(startTime, endTime), called from delete()
deleteAudioRange(startTime, endTime) ==
    /\ audioLen' = NewLength(audioLen, startTime, endTime)
    /\ chunks' = DeletedChunks(chunks, startTime, endTime)
    /\ pausedAtTime' = PausedAfterDelete(pausedAtTime, startTime, endTime)
    /\ seekPosition' = PausedAfterDelete(pausedAtTime, startTime, endTime)
    /\ audioBuffer' = DeleteSamples(audioBuffer, SampleOf(startTime), SampleOf(endTime))
    /\ source' = FreezeChunks(source, chunks)
    /\ ended' = FrozenEvents(ended, chunks)
    /\ UNCHANGED nextChunkId

\* delete(): the selected chunk after a range delete (deleteTimeRange's clearing only)
\* and after a chunk delete
SelectedAfterRangeDelete(sel, cs) == SelectedAfterDelete(sel, cs)
SelectedAfterChunkDeleteKept(sel) == sel
SelectedAfterChunkDelete(sel) == NoChunk

SelectionAfterDelete(sel) == EmptySelection

\* delete(): the list has no chunk to spare
OnlyChunkNever(cs) == FALSE
OnlyChunk(cs) == Len(cs) <= 1

\* Delete / Backspace: delete() when there is a selection or a selected chunk
KeyDelete ==
    /\ KeyEnabled
    /\ HasSelection(selection) \/ selectedChunk # NoChunk
    /\ IF HasSelection(selection)
       THEN LET startTime == Min(selection.start, selection.end)
                endTime == Max(selection.start, selection.end)
            IN  IF CreateBufferOk(NewLength(audioLen, startTime, endTime))
                THEN /\ deleteAudioRange(startTime, endTime)
                     /\ selectedChunk' =
                           SelectedAfterRangeDelete(selectedChunk,
                                                    DeletedChunks(chunks, startTime, endTime))
                     /\ selection' = SelectionAfterDelete(selection)
                     /\ resizeHandlesVisible' = FALSE
                     /\ resizeHandleTimeout' = FALSE
                     /\ last' = Edit("deleteRange", startTime, endTime, TRUE)
                ELSE /\ last' = Edit("deleteRange", startTime, endTime, FALSE)
                     /\ UNCHANGED <<cmVars, audioLen, pausedAtTime, seekPosition, selection,
                                    handleVars, audioBuffer, source, ended>>
       ELSE IF OnlyChunk(chunks)
            THEN /\ last' = Edit("deleteChunk", selectedChunk.start, selectedChunk.end, FALSE)
                 /\ UNCHANGED <<cmVars, audioLen, pausedAtTime, seekPosition, selection,
                                handleVars, audioBuffer, source, ended>>
            ELSE IF CreateBufferOk(NewLength(audioLen, selectedChunk.start, selectedChunk.end))
            THEN /\ deleteAudioRange(selectedChunk.start, selectedChunk.end)
                 /\ selectedChunk' = SelectedAfterChunkDelete(selectedChunk)
                 /\ last' = [Edit("deleteChunk", selectedChunk.start, selectedChunk.end, TRUE)
                               EXCEPT !.beforeSelected = selectedChunk]
                 /\ UNCHANGED <<selection, handleVars>>
            ELSE /\ last' = Edit("deleteChunk", selectedChunk.start, selectedChunk.end, FALSE)
                 /\ UNCHANGED <<cmVars, audioLen, pausedAtTime, seekPosition, selection,
                                handleVars, audioBuffer, source, ended>>
    /\ UNCHANGED pointerVars
    /\ UNCHANGED <<isPlaying, playStartTime, currentTime, isLooping, currentlyPlayingChunk,
                   playingChunks, isPlayingSelection, loopSelection>>
    /\ UNCHANGED svcVars

\* Cmd/Ctrl+A: selectAll()
KeySelectAll ==
    /\ KeyEnabled
    /\ selection' = [start |-> 0, end |-> Duration]
    /\ seekPosition' = 0
    /\ pausedAtTime' = 0
    /\ selectedChunk' = NoChunk
    /\ resizeHandleTimeout' = ScheduledHandles([start |-> 0, end |-> Duration])
    /\ last' = NoLast
    /\ UNCHANGED <<chunks, nextChunkId, audioLen, resizeHandlesVisible, pointerVars>>
    /\ UNCHANGED <<audioBuffer, plVars>>
    /\ UNCHANGED svcVars

\* Home, End, the arrow and the digit keys: seekToTime(time)
KeySeek ==
    \E t \in Times :
        /\ KeyEnabled
        /\ seekToTime(t, selection)
        /\ seekPosition' = IF isPlaying /\ StopThrows(source) THEN seekPosition
                           ELSE ClampTime(t)
        /\ last' = Edit("seek", t, 0, isPlaying)
        /\ UNCHANGED <<cmVars, audioLen, selection, handleVars, pointerVars>>
        /\ UNCHANGED <<audioBuffer, currentTime, isLooping>>
        /\ UNCHANGED svcVars

\* applyFadeIn / applyFadeOut / applySilence / applyNormalize: the new audio buffer
ApplyEffect(kind, buf, startSample, endSample) ==
    IF kind = "fadeIn" THEN FadeSamples(buf, startSample, endSample, "in")
    ELSE IF kind = "fadeOut" THEN FadeSamples(buf, startSample, endSample, "out")
    ELSE IF kind = "silence" THEN SilenceSamples(buf, startSample, endSample)
    ELSE NormalizeSamples(buf, startSample, endSample)

\* applyFadeEffect / applySilenceEffect / applyNormalizeEffect: the selected chunk afterwards
EffectClearsChunk(sel) == NoChunk

\* applyFadeEffect(startTime, endTime, type), applySilenceEffect(startTime, endTime),
\* applyNormalizeEffect(startTime, endTime)
applyEffect(kind, startTime, endTime) ==
    /\ audioBuffer' = ApplyEffect(kind, audioBuffer, SampleOf(startTime), SampleOf(endTime))
    /\ selection' = EmptySelection
    /\ selectedChunk' = EffectClearsChunk(selectedChunk)
    /\ resizeHandlesVisible' = FALSE
    /\ resizeHandleTimeout' = FALSE

\* Cmd/Ctrl+F, Cmd/Ctrl+Shift+F, Cmd/Ctrl+M, Cmd/Ctrl+N: applyFadeIn, applyFadeOut,
\* applySilence, applyNormalize; the new buffer has the length of the old one
KeyEffect ==
    \E kind \in {"fadeIn", "fadeOut", "silence", "normalize"} :
        /\ KeyEnabled
        /\ IF HasSelection(selection) \/ selectedChunk # NoChunk
           THEN /\ IF HasSelection(selection)
                   THEN applyEffect(kind, Min(selection.start, selection.end),
                                    Max(selection.start, selection.end))
                   ELSE applyEffect(kind, selectedChunk.start, selectedChunk.end)
                /\ last' = IF HasSelection(selection)
                           THEN Edit(kind, Min(selection.start, selection.end),
                                     Max(selection.start, selection.end), TRUE)
                           ELSE Edit(kind, selectedChunk.start, selectedChunk.end, TRUE)
           ELSE /\ last' = Edit(kind, 0, 0, FALSE)
                /\ UNCHANGED <<selection, selectedChunk, handleVars, audioBuffer>>
        /\ UNCHANGED <<chunks, nextChunkId, audioLen, seekPosition, pausedAtTime, pointerVars>>
        /\ UNCHANGED plVars
        /\ UNCHANGED svcVars

\* new AudioChunkingEditor(): the ChunkManager starts with the chunk {0, 0, id 0}
Init ==
    /\ chunks = InitialChunks(0)
    /\ selectedChunk = NoChunk
    /\ nextChunkId = 1
    /\ last = NoLast
    /\ EdIdle

Next ==
    \/ HandleFile
    \/ HandleWaveformClick
    \/ MouseDown
    \/ HandleResizeStart
    \/ MouseMove
    \/ MouseUp
    \/ MouseUpOutside
    \/ MouseUpLost
    \/ MouseLeave
    \/ FlagTimeout
    \/ HandlesTimeout
    \/ HandleDocumentClick
    \/ KeyEscape
    \/ KeySplit
    \/ KeyDelete
    \/ KeySelectAll
    \/ KeySeek
    \/ KeyEffect

Spec == Init /\ [][Next]_vars

(***************************************************************************)
(* Properties of the ChunkManager (checked under CMSpec)                   *)
(***************************************************************************)
Ids(cs) == [i \in 1..Len(cs) |-> cs[i].id]
IdSet(cs) == { cs[i].id : i \in 1..Len(cs) }
SameSpan(c, a, b) == c.start = a /\ c.end = b
ChunkWithId(cs, id) == cs[CHOOSE i \in 1..Len(cs) : cs[i].id = id]
Contiguous(cs) ==
    cs # <<>> => /\ cs[1].start = 0
                 /\ \A i \in 2..Len(cs) : cs[i].start = cs[i-1].end

\* C2: after initializeChunks(duration > 0) and any splitAtPosition / deleteTimeRange
\* calls with 0 <= s < e, every chunk has 0 <= start < end and no two distinct
\* chunks have overlapping [start,end) intervals.
C2_ChunksWellFormed ==
    /\ \A i \in 1..Len(chunks) : 0 <= chunks[i].start /\ chunks[i].start < chunks[i].end
    /\ \A i, j \in 1..Len(chunks) :
          i # j => (chunks[i].end <= chunks[j].start \/ chunks[j].end <= chunks[i].start)

C2_Witness ==
    /\ last.op = "deleteTimeRange"
    /\ Len(last.before) >= 3
    /\ Len(chunks) >= 2
    /\ \E i \in 1..Len(last.before) :
          last.before[i].start >= last.a /\ last.before[i].start < last.b
          /\ last.before[i].end > last.b

\* C3: after any sequence of splits and deletes the list is ordered by start, the
\* first chunk starts at 0 and every later chunk starts where the previous one ends.
C3_Contiguous ==
    /\ Contiguous(chunks)
    /\ \A i \in 2..Len(chunks) : chunks[i-1].start < chunks[i].start

C3_Witness ==
    /\ last.op = "deleteTimeRange"
    /\ Len(chunks) >= 2
    /\ \E i \in 1..Len(last.before) : last.before[i].start >= last.b
    /\ \E i \in 1..Len(last.before) :
          last.before[i].start < last.a /\ last.before[i].end > last.a

\* C4: splitAtPosition(t) with t strictly inside chunk c returns true and replaces c,
\* in place, by {c.start, t} and {t, c.end}; every other chunk and the order are
\* unchanged, and so is the total covered duration.
C4_SplitReplacesInPlace ==
    (last.op = "splitAtPosition") =>
        \A i \in 1..Len(last.before) :
            (last.before[i].start < last.a /\ last.a < last.before[i].end) =>
                /\ last.ok
                /\ Len(chunks) = Len(last.before) + 1
                /\ SameSpan(chunks[i], last.before[i].start, last.a)
                /\ SameSpan(chunks[i+1], last.a, last.before[i].end)
                /\ \A j \in 1..(i - 1) : chunks[j] = last.before[j]
                /\ \A j \in (i + 1)..Len(last.before) : chunks[j+1] = last.before[j]
                /\ TotalDuration(chunks) = TotalDuration(last.before)

C4_Witness ==
    /\ last.op = "splitAtPosition"
    /\ last.ok
    /\ Len(last.before) >= 2
    /\ last.before[1].start < last.a /\ last.a < last.before[1].end

\* C5: splitAtPosition(t) with t not strictly inside any chunk returns false and
\* leaves the chunk list, the selected chunk and the id counter unchanged.
C5_InvalidSplitRejected ==
    (/\ last.op = "splitAtPosition"
     /\ \A i \in 1..Len(last.before) :
           ~(last.before[i].start < last.a /\ last.a < last.before[i].end))
    => /\ ~last.ok
       /\ chunks = last.before
       /\ selectedChunk = last.beforeSelected
       /\ nextChunkId = last.beforeNextId

C5_Witness ==
    /\ last.op = "splitAtPosition"
    /\ ~last.ok
    /\ last.beforeSelected # NoChunk
    /\ Len(last.before) >= 2
    /\ last.a = last.before[1].end

\* C6: between two initializeChunks calls ids are never reused: the initial chunk
\* has id 0, a split assigns ids greater than every id assigned before, and the
\* ids in the list are pairwise distinct (deleteTimeRange keeps ids).
C6_IdsNeverReused ==
    /\ \A i, j \in 1..Len(chunks) : i # j => chunks[i].id # chunks[j].id
    /\ \A i \in 1..Len(chunks) : chunks[i].id < nextChunkId
    /\ (last.op = "initializeChunks") => (chunks[1].id = 0 /\ nextChunkId = 1)
    /\ (last.op \in {"splitAtPosition", "deleteTimeRange", "selectChunkAtPosition"})
          => nextChunkId >= last.beforeNextId
    /\ (last.op = "splitAtPosition" /\ last.ok) =>
          \A id \in IdSet(chunks) \ IdSet(last.before) : id >= last.beforeNextId
    /\ (last.op = "deleteTimeRange") =>
          \A i \in 1..Len(chunks) : HasId(last.before, chunks[i].id)

C6_Witness ==
    /\ last.op = "splitAtPosition"
    /\ last.ok
    /\ last.beforeNextId >= 3
    /\ Len(chunks) >= 3

\* C7: for a contiguous list covering [0,D] and 0 <= s < e <= D, deleteTimeRange(s,e)
\* reduces the total covered duration by exactly e-s and keeps the surviving
\* chunks in their previous relative order.
C7_DeleteShrinksByRange ==
    (/\ last.op = "deleteTimeRange"
     /\ last.before # <<>>
     /\ Contiguous(last.before)
     /\ last.b <= last.before[Len(last.before)].end)
    => /\ TotalDuration(chunks) = TotalDuration(last.before) - (last.b - last.a)
       /\ Ids(chunks) = Ids(SelectSeq(last.before, LAMBDA c : HasId(chunks, c.id)))

C7_Witness ==
    /\ last.op = "deleteTimeRange"
    /\ Len(last.before) >= 3
    /\ last.b <= last.before[Len(last.before)].end
    /\ Len(chunks) >= 2
    /\ Len(chunks) < Len(last.before)

\* C8: deleteTimeRange(s,e) transforms each chunk by its position relative to [s,e]:
\* after -> shifted left by e-s; before -> untouched; inside -> removed; straddling
\* the left edge only -> end = s; straddling the right edge only -> start = s and
\* end shifted by e-s; strictly containing the range -> end shrinks by e-s.
C8_DeleteByPosition ==
    (last.op = "deleteTimeRange") =>
        LET s == last.a
            e == last.b
            d == last.b - last.a
        IN  \A i \in 1..Len(last.before) :
              LET c == last.before[i] IN
              /\ (c.start >= e) =>
                    (HasId(chunks, c.id)
                     /\ SameSpan(ChunkWithId(chunks, c.id), c.start - d, c.end - d))
              /\ (c.end <= s) =>
                    (HasId(chunks, c.id) /\ ChunkWithId(chunks, c.id) = c)
              /\ (c.start >= s /\ c.end <= e) => ~HasId(chunks, c.id)
              /\ (c.start < s /\ c.end > s /\ c.end <= e) =>
                    (HasId(chunks, c.id)
                     /\ SameSpan(ChunkWithId(chunks, c.id), c.start, s))
              /\ (c.start >= s /\ c.start < e /\ c.end > e) =>
                    (HasId(chunks, c.id)
                     /\ SameSpan(ChunkWithId(chunks, c.id), s, c.end - d))
              /\ (c.start < s /\ c.end > e) =>
                    (HasId(chunks, c.id)
                     /\ SameSpan(ChunkWithId(chunks, c.id), c.start, c.end - d))

\* the scenario {0,3},{3,10} with deleteTimeRange(2,5), scaled to the model's
\* durations: {0,2},{2,4} with deleteTimeRange(1,3) gives {0,1},{1,2}
C8_Witness ==
    /\ last.op = "deleteTimeRange"
    /\ last.a = 1 /\ last.b = 3
    /\ Len(last.before) = 2
    /\ SameSpan(last.before[1], 0, 2) /\ SameSpan(last.before[2], 2, 4)
    /\ Len(chunks) = 2
    /\ SameSpan(chunks[1], 0, 1) /\ SameSpan(chunks[2], 1, 2)

(***************************************************************************)
(* Properties of the editor (checked under Spec)                           *)
(***************************************************************************)
EditOps == {"deleteRange", "deleteChunk", "fadeIn", "fadeOut", "silence", "normalize"}

\* C1: in every state reachable after a file is loaded, by any sequence of editor
\* operations, the chunk list contains at least one chunk.
C1_AtLeastOneChunk == (audioLen > 0) => (Len(chunks) >= 1)

\* C9: a non-empty range selection and a non-null selected chunk are never active
\* at the same time.
C9_SelectionXorChunk == ~(HasSelection(selection) /\ selectedChunk # NoChunk)

\* a drag began while a chunk was selected: the range is active, the chunk cleared
C9_Witness ==
    /\ last.op = "mousemove"
    /\ last.beforeSelected # NoChunk
    /\ HasSelection(selection)
    /\ selectedChunk = NoChunk

\* C10: after every destructive edit that is actually applied (delete of a range or
\* of the selected chunk, fade in/out, silence, normalize) the range selection is
\* empty and the selected chunk is null.
C10_EditClearsBoth ==
    (last.op \in EditOps /\ last.ok) =>
        (selection.start = selection.end /\ selectedChunk = NoChunk)

\* the selected chunk has been deleted, with another chunk remaining
C10_Witness ==
    /\ last.op = "deleteChunk"
    /\ last.ok
    /\ Len(chunks) >= 1
    /\ selectedChunk = NoChunk

\* the points of a set in ascending order
RECURSIVE Ascending(_)
Ascending(pts) ==
    IF pts = {} THEN <<>>
    ELSE LET lo == CHOOSE x \in pts : \A y \in pts : x <= y
         IN  <<lo>> \o Ascending(pts \ {lo})

\* the chunk list after splitting the chunk {0, duration, id 0} at the points of
\* cuts, left to right: each split gives both halves a fresh id
SplitAt(cuts, duration) ==
    LET pts == Ascending({0, duration} \cup cuts)
        k == Cardinality(cuts)
    IN  [i \in 1..(k + 1) |->
            [start |-> pts[i], end |-> pts[i + 1],
             id |-> IF k = 0 THEN 0 ELSE IF i <= k THEN 2 * i - 1 ELSE 2 * k]]

(***************************************************************************)
(* Playback: the editor with the player running. The clock is               *)
(* audioContext.currentTime in ticks; a source started with n frames left   *)
(* ends n * TicksPerSample ticks later and its ended event is delivered     *)
(* before the clock moves on.                                               *)
(***************************************************************************)
MaxClock == 3

\* source.onended of playSelection, playChunk and playAllChunks, for the source c;
\* src and pend are this.source and the undelivered ended events at that moment
onended(c, src, pend) ==
    IF ~isPlaying
    THEN /\ source' = src
         /\ ended' = pend
         /\ UNCHANGED <<pausedAtTime, isPlaying, playStartTime, currentlyPlayingChunk,
                        playingChunks, isPlayingSelection, loopSelection>>
    ELSE IF ~isLooping
    THEN stop(<<>>, pausedAtTime, src, pend, TRUE)
    ELSE IF c.kind = "selection"
    THEN IF loopSelection.state = "null"
         THEN \* selection.start of null: TypeError after pausedAtTime was set
              /\ pausedAtTime' = c.start
              /\ source' = src
              /\ ended' = pend
              /\ UNCHANGED <<isPlaying, playStartTime, currentlyPlayingChunk, playingChunks,
                             isPlayingSelection, loopSelection>>
         ELSE playSelection(c.start,
                            IF loopSelection.state = "live" THEN selection
                            ELSE [start |-> loopSelection.start, end |-> loopSelection.end],
                            loopSelection.state, src, pend, TRUE)
    ELSE IF c.kind = "chunk"
    THEN playChunk(c.start, c.chunks[1], src, pend, TRUE)
    ELSE playAllChunks(c.start, IF c.live THEN chunks ELSE c.chunks, c.live, src, pend, TRUE)

\* what the player does besides: the editor's fields stay
playerOnly == <<chunks, selectedChunk, nextChunkId, audioLen, audioBuffer, selection,
                seekPosition, handleVars, pointerVars>>

\* pause() of the editor, whatever the player is doing
Pause ==
    /\ KeyEnabled
    /\ pause
    /\ last' = Edit("pause", pausedAtTime, 0, isPlaying /\ ~StopThrows(source))
    /\ UNCHANGED <<playerOnly, currentTime, isLooping>>
    /\ UNCHANGED svcVars

\* Space: togglePlayPause()
KeyPlayPause ==
    /\ KeyEnabled
    /\ IF isPlaying
       THEN /\ pause
            /\ last' = Edit("pause", pausedAtTime, 0, ~StopThrows(source))
       ELSE /\ play(pausedAtTime, selection, source, ended, FALSE)
            /\ last' = Edit("play", pausedAtTime, 0, isPlaying')
    /\ UNCHANGED <<playerOnly, currentTime, isLooping>>
    /\ UNCHANGED svcVars

\* a click on the waveform with the pointer at rest: handleMouseDown, handleMouseUp
\* with the play() its seekToTime leads to, then handleWaveformClick, all at time t
Click ==
    \E t \in Times :
        /\ KeyEnabled
        /\ mouse = "up" /\ ~isDragging /\ ~isResizing /\ ~justFinishedDrag
        /\ IF ClickInSelection(selection, t)
           THEN /\ handleMouseDown(t)
                /\ UNCHANGED <<selectedChunk, pausedAtTime, playVars>>
           ELSE LET hit == ChunkAtTime(chunks, t)
                    selects == Len(chunks) > 1 /\ hit # NoChunk
                IN  /\ seekToTime(t, EmptySelection)
                    /\ seekPosition' = ClampTime(t)
                    /\ initialClickTime' = t
                    /\ selection' = EmptySelection
                    /\ resizeHandlesVisible' = FALSE
                    /\ resizeHandleTimeout' = FALSE
                    /\ selectedChunk' = IF selects THEN hit ELSE selectedChunk
                    /\ UNCHANGED <<isDragging, dragStarted>>
        /\ last' = [Edit("clickAt", t, 0, ~ClickInSelection(selection, t))
                      EXCEPT !.beforeSelected = selectedChunk]
        /\ UNCHANGED <<chunks, nextChunkId, audioLen, audioBuffer, currentTime, isLooping,
                       justFinishedDrag, flagTimer, isResizing, resizeHandle, mouse, clickDue>>
        /\ UNCHANGED svcVars

\* Cmd/Ctrl+L: toggleLoop()
KeyLoop ==
    /\ KeyEnabled
    /\ isLooping' = ~isLooping
    /\ last' = NoLast
    /\ UNCHANGED <<playerOnly, pausedAtTime, playVars, currentTime>>
    /\ UNCHANGED svcVars

\* audioContext.currentTime advances; the clock is read only while a source
\* plays or an ended event is outstanding
Tick ==
    /\ currentTime < MaxClock
    /\ source.state = "playing" \/ ended # {}
    /\ ~EndedDue
    /\ currentTime' = currentTime + 1
    /\ last' = NoLast
    /\ UNCHANGED <<playerOnly, pausedAtTime, playVars, isLooping>>
    /\ UNCHANGED svcVars

\* the current source plays to its end: its onended runs
SourceEnded ==
    /\ source.state = "playing"
    /\ source.endsAt <= currentTime
    /\ onended(source, EndedNode, ended)
    /\ last' = Edit("ended", source.start, 0, isPlaying)
    /\ UNCHANGED <<playerOnly, currentTime, isLooping>>
    /\ UNCHANGED svcVars

\* the ended event of a source that was stopped, or replaced while playing
EndedDelivered ==
    \E e \in ended :
        /\ e.at <= currentTime
        /\ onended(e, source, ended \ {e})
        /\ last' = Edit("endedLate", e.start, 0, isPlaying)
        /\ UNCHANGED <<playerOnly, currentTime, isLooping>>
        /\ UNCHANGED svcVars

\* a file is loaded and split, a range or a chunk may be selected, the playback
\* position is anywhere; nothing has been played yet
PlayInit ==
    /\ \E n \in 1..MaxFrames :
          /\ audioBuffer = SilentBuffer(1, n)
          /\ audioLen = n
          /\ \E cuts \in SUBSET (1..(n * TicksPerSample - 1)) :
                /\ chunks = SplitAt(cuts, n * TicksPerSample)
                /\ nextChunkId = 2 * Cardinality(cuts) + 1
          /\ pausedAtTime \in 0..(n * TicksPerSample)
          /\ \/ /\ selectedChunk = NoChunk
                /\ \E t1 \in 0..(n * TicksPerSample), t2 \in 0..(n * TicksPerSample) :
                      /\ t1 < t2 \/ (t1 = 0 /\ t2 = 0)
                      /\ selection = [start |-> t1, end |-> t2]
             \/ /\ selection = EmptySelection
                /\ Len(chunks) > 1
                /\ \E i \in 1..Len(chunks) : selectedChunk = chunks[i]
    /\ seekPosition = pausedAtTime
    /\ PointerIdle
    /\ PlayerIdle
    /\ ServicesIdle
    /\ last = NoLast

PlayNext ==
    \/ HandleFile
    \/ KeySeek
    \/ KeyEffect
    \/ KeyEscape
    \/ KeyPlayPause
    \/ Pause
    \/ KeyLoop
    \/ Tick
    \/ SourceEnded
    \/ EndedDelivered

PlaySpec == PlayInit /\ [][PlayNext]_vars

\* clicks on the waveform while the player plays, pauses and runs out
ClickNext ==
    \/ Click
    \/ KeyPlayPause
    \/ KeyLoop
    \/ Tick
    \/ SourceEnded
    \/ EndedDelivered

ClickSpec == PlayInit /\ [][ClickNext]_vars

(***************************************************************************)
(* The edit operations on their own: delete() and the four effects applied *)
(* to an editor state drawn from the states that loading a file, splits,   *)
(* range deletes and selections lead to. A range delete that removes fewer *)
(* frames than its length in time leaves the chunks ending before the      *)
(* buffer does, so the chunks cover [0, d] for some d up to the duration.  *)
(***************************************************************************)
MaxEditFrames == 3

EditInit ==
    /\ \E n \in 1..MaxEditFrames :
          /\ audioBuffer = SilentBuffer(1, n)
          /\ audioLen = n
          /\ \E d \in 1..(n * TicksPerSample) :
                \E cuts \in SUBSET (1..(d - 1)) :
                    /\ chunks = SplitAt(cuts, d)
                    /\ nextChunkId = 2 * Cardinality(cuts) + 1
          /\ pausedAtTime \in 0..(n * TicksPerSample)
          /\ \/ /\ selectedChunk = NoChunk
                /\ \E t1 \in 0..(n * TicksPerSample), t2 \in 0..(n * TicksPerSample) :
                      /\ t1 < t2 \/ (t1 = 0 /\ t2 = 0)
                      /\ selection = [start |-> t1, end |-> t2]
             \/ /\ selection = EmptySelection
                /\ \E i \in 1..Len(chunks) : selectedChunk = chunks[i]
    /\ seekPosition = pausedAtTime
    /\ PointerIdle
    /\ PlayerIdle
    /\ ServicesIdle
    /\ last = NoLast

EditNext == KeyDelete \/ KeyEffect

EditSpec == EditInit /\ [][EditNext]_vars

\* C11: a delete request for the selected chunk while the list has one chunk is
\* rejected: the audio buffer, the chunk list, the selected chunk and the
\* playback position are what they were.
C11_LastChunkDeleteRejected ==
    [][(/\ last'.op = "deleteChunk"
        /\ ~HasSelection(selection)
        /\ selectedChunk # NoChunk
        /\ Len(chunks) <= 1)
       => (/\ ~last'.ok
           /\ audioBuffer' = audioBuffer
           /\ chunks' = chunks
           /\ selectedChunk' = selectedChunk
           /\ pausedAtTime' = pausedAtTime)]_vars

C11_Witness ==
    /\ last.op = "deleteChunk"
    /\ ~last.ok
    /\ Len(chunks) = 1
    /\ selectedChunk = chunks[1]
    /\ chunks[1].end < Duration

MaxBufFrames == 3
MaxChannels == 2
SampleValues == {0 - SampleUnit, 0, 20, 600}

BufInit ==
    /\ \E ch \in 1..MaxChannels, n \in 1..MaxBufFrames :
          /\ audioBuffer \in [1..ch -> [1..n -> SampleValues]]
          /\ audioLen = n
          /\ chunks = InitialChunks(n * TicksPerSample)
    /\ selectedChunk = NoChunk
    /\ nextChunkId = 1
    /\ selection = EmptySelection
    /\ seekPosition = 0
    /\ pausedAtTime = 0
    /\ PointerIdle
    /\ PlayerIdle
    /\ ServicesIdle
    /\ last = NoLast

\* deleteAudioRange(startTime, endTime); createBuffer throws when no frame is left
BufDelete ==
    \E startTime \in Times, endTime \in Times :
        /\ last = NoLast
        /\ startTime <= endTime
        /\ IF CreateBufferOk(NewLength(audioLen, startTime, endTime))
           THEN /\ deleteAudioRange(startTime, endTime)
                /\ selectedChunk' =
                      SelectedAfterRangeDelete(selectedChunk,
                                               DeletedChunks(chunks, startTime, endTime))
                /\ last' = Edit("deleteAudioRange", startTime, endTime, TRUE)
           ELSE /\ last' = Edit("deleteAudioRange", startTime, endTime, FALSE)
                /\ UNCHANGED <<cmVars, audioLen, pausedAtTime, seekPosition, audioBuffer,
                               source, ended>>
        /\ UNCHANGED <<selection, handleVars, pointerVars, isPlaying, playStartTime,
                       currentTime, isLooping, currentlyPlayingChunk, playingChunks,
                       isPlayingSelection, loopSelection>>
        /\ UNCHANGED svcVars

\* applyFadeEffect, applySilenceEffect, applyNormalizeEffect
BufEffect ==
    \E kind \in {"fadeIn", "fadeOut", "silence", "normalize"},
       startTime \in Times, endTime \in Times :
        /\ last = NoLast
        /\ startTime <= endTime
        /\ applyEffect(kind, startTime, endTime)
        /\ last' = Edit(kind, startTime, endTime, TRUE)
        /\ UNCHANGED <<chunks, nextChunkId, audioLen, seekPosition, pausedAtTime,
                       pointerVars, plVars>>
        /\ UNCHANGED svcVars

\* oldData[startFrame + i] || 0 for i = 0 .. chunkFrames - 1: a read past the
\* end of the channel data gives undefined, which || 0 turns into 0
ReadFrames(oldData, startFrame, chunkFrames) ==
    [i \in 1..chunkFrames |->
        IF startFrame + i <= Len(oldData) THEN oldData[startFrame + i] ELSE 0]

\* the frames the copy loops write, chunk after chunk, before the guard
\* currentFrame + i < totalFrames is applied; firstStart is the start time of
\* the first chunk's range
RECURSIVE CopiedFrames(_, _, _)
CopiedFrames(oldData, cs, firstStart) ==
    IF Len(cs) = 0 THEN <<>>
    ELSE LET startFrame == SampleOf(firstStart)
             endFrame == SampleOf(Head(cs).end)
             chunkFrames == endFrame - startFrame
         IN  ReadFrames(oldData, startFrame, chunkFrames)
                \o (IF Len(cs) = 1 THEN <<>>
                    ELSE CopiedFrames(oldData, Tail(cs), cs[2].start))

\* the channel data of a new buffer of totalFrames frames after the guarded
\* writes: frames at or beyond totalFrames are not written, frames never
\* written keep the 0 the buffer was created with
GuardedWrites(copied, totalFrames) ==
    [i \in 1..totalFrames |-> IF i <= Len(copied) THEN copied[i] ELSE 0]

\* ChunkManager.createCombinedBuffer(audioContext, originalBuffer, chunksToInclude)
createCombinedBuffer(originalBuffer, cs) ==
    LET totalDuration == TotalDuration(cs)
        totalFrames == SampleOf(totalDuration)
    IN  [c \in 1..NumChannels(originalBuffer) |->
            GuardedWrites(CopiedFrames(originalBuffer[c], cs, cs[1].start), totalFrames)]

\* AudioPlayer.createCombinedChunksBuffer(audioBuffer, sortedChunks,
\* startChunkIndex, startOffset); startChunkIndex counts from 1 here
createCombinedChunksBuffer(buf, sortedChunks, startChunkIndex, startOffset) ==
    LET rest == SubSeq(sortedChunks, startChunkIndex, Len(sortedChunks))
        totalDuration == TotalDuration(rest) - startOffset
        totalFrames == SampleOf(totalDuration)
    IN  [c \in 1..NumChannels(buf) |->
            GuardedWrites(CopiedFrames(buf[c], rest, rest[1].start + startOffset),
                          totalFrames)]

\* the chunk list of a buffer of the given duration after at most one split
SplitOnce(duration, cut) ==
    IF cut <= 0 \/ cut >= duration THEN InitialChunks(duration)
    ELSE << [start |-> 0, end |-> cut, id |-> 0],
            [start |-> cut, end |-> duration, id |-> 1] >>

\* createCombinedBuffer called once on the loaded buffer with the chunk list or
\* with one of its chunks; createBuffer throws when totalFrames is 0
BufCombine ==
    \E cut \in Times, from \in 1..2, to \in 1..2 :
        LET cs == SplitOnce(Duration, cut)
            chunksToInclude == SubSeq(cs, from, to)
            ok == CreateBufferOk(SampleOf(TotalDuration(chunksToInclude)))
        IN  /\ last = NoLast
            /\ from <= to
            /\ to <= Len(cs)
            /\ combinedBuffer' = IF ok THEN createCombinedBuffer(audioBuffer, chunksToInclude)
                                 ELSE combinedBuffer
            /\ last' = [Edit("createCombinedBuffer", 0, 0, ok)
                           EXCEPT !.before = chunksToInclude]
            /\ UNCHANGED <<cmVars, audioLen, audioBuffer, seekPosition, pausedAtTime,
                           selection, handleVars, pointerVars, plVars>>
            /\ UNCHANGED <<hmVars, exVars>>

\* createCombinedChunksBuffer called once as playAllChunks calls it: with the
\* sorted chunk list, the index of the chunk holding the position paused and
\* the offset of paused inside that chunk
BufCombineFrom ==
    \E cut \in Times, paused \in Times :
        LET sortedChunks == SplitOnce(Duration, cut)
            startChunkIndex == StartChunkIndex(sortedChunks, paused)
            startOffset == paused - sortedChunks[startChunkIndex].start
            rest == SubSeq(sortedChunks, startChunkIndex, Len(sortedChunks))
            ok == CreateBufferOk(SampleOf(TotalDuration(rest) - startOffset))
        IN  /\ last = NoLast
            /\ combinedBuffer' = IF ok
                                 THEN createCombinedChunksBuffer(audioBuffer, sortedChunks,
                                                                 startChunkIndex, startOffset)
                                 ELSE combinedBuffer
            /\ last' = [Edit("createCombinedChunksBuffer", startOffset, 0, ok)
                           EXCEPT !.before = rest]
            /\ UNCHANGED <<cmVars, audioLen, audioBuffer, seekPosition, pausedAtTime,
                           selection, handleVars, pointerVars, plVars>>
            /\ UNCHANGED <<hmVars, exVars>>

BufNext ==
    \/ BufDelete
    \/ BufEffect
    \/ BufCombine
    \/ BufCombineFrom

BufSpec == BufInit /\ [][BufNext]_vars

\* the samples of channel data from index from (counted from 0) up to, not
\* including, index to
Samples(data, from, to) == SubSeq(data, from + 1, to)

\* C14: deleting [startTime, endTime) gives a buffer of oldLength - (endSample
\* - startSample) frames with the old channel count, each channel being the old
\* samples [0, startSample) followed by the old samples [endSample, oldLength).
C14_DeleteCompacts ==
    [][last'.op = "deleteAudioRange"
       => LET startSample == SampleOf(last'.a)
              endSample == SampleOf(last'.b)
              oldLength == FrameLength(audioBuffer)
          IN  /\ NumChannels(audioBuffer') = NumChannels(audioBuffer)
              /\ \A c \in 1..NumChannels(audioBuffer) :
                    /\ Len(audioBuffer'[c]) = oldLength - (endSample - startSample)
                    /\ audioBuffer'[c] = Samples(audioBuffer[c], 0, startSample)
                                           \o Samples(audioBuffer[c], endSample, oldLength)]_vars

Effects == {"fadeIn", "fadeOut", "silence", "normalize"}

\* C15: fade, silence and normalize over [startSample, endSample) return a buffer
\* with the frame count and channel count of the input in which every sample
\* outside the range is the input sample; silence makes every in-range sample 0.
C15_EffectsKeepOutside ==
    [][(last'.op \in Effects /\ last'.ok)
       => LET startSample == SampleOf(last'.a)
              endSample == SampleOf(last'.b)
          IN  /\ NumChannels(audioBuffer') = NumChannels(audioBuffer)
              /\ \A c \in 1..NumChannels(audioBuffer) :
                    /\ Len(audioBuffer'[c]) = Len(audioBuffer[c])
                    /\ \A i \in 1..Len(audioBuffer[c]) :
                          /\ ~(i - 1 >= startSample /\ i - 1 < endSample)
                                => audioBuffer'[c][i] = audioBuffer[c][i]
                          /\ (last'.op = "silence" /\ i - 1 >= startSample /\ i - 1 < endSample)
                                => audioBuffer'[c][i] = 0]_vars

\* silence over the middle frame of a buffer whose outer frames are not silent
C15_Witness ==
    /\ last.op = "silence"
    /\ last.ok
    /\ FrameLength(audioBuffer) = 3
    /\ SampleOf(last.a) = 1
    /\ SampleOf(last.b) = 2
    /\ \A c \in 1..NumChannels(audioBuffer) :
          audioBuffer[c][1] # 0 /\ audioBuffer[c][2] = 0 /\ audioBuffer[c][3] # 0

\* C16: buffer delete, fade, silence and normalize over a range with startSample =
\* endSample raise no error and return a buffer with the length and the samples
\* of the input.
C16_EmptyRangeNoOp ==
    [][(/\ last'.op \in Effects \cup {"deleteAudioRange"}
        /\ SampleOf(last'.a) = SampleOf(last'.b))
       => (last'.ok /\ audioBuffer' = audioBuffer)]_vars

\* normalize over a time range that is not empty but covers no frame, on a
\* buffer that is not silent
C16_Witness ==
    /\ last.op = "normalize"
    /\ last.ok
    /\ last.a < last.b
    /\ SampleOf(last.a) = SampleOf(last.b)
    /\ MaxAmplitude(audioBuffer, 0, FrameLength(audioBuffer)) > TargetLinear

C18_FadeEnds ==
    [][(last'.op \in {"fadeIn", "fadeOut"} /\ last'.ok
            /\ SampleOf(last'.a) < SampleOf(last'.b))
       => LET startSample == SampleOf(last'.a)
              endSample == SampleOf(last'.b)
              fadeLength == endSample - startSample
              type == IF last'.op = "fadeIn" THEN "in" ELSE "out"
          IN  /\ \A c \in 1..NumChannels(audioBuffer) :
                    IF type = "in"
                    THEN /\ audioBuffer'[c][startSample + 1] = 0
                         /\ endSample < FrameLength(audioBuffer)
                               => audioBuffer'[c][endSample + 1] = audioBuffer[c][endSample + 1]
                    ELSE /\ audioBuffer'[c][startSample + 1] = audioBuffer[c][startSample + 1]
                         /\ Abs(audioBuffer'[c][endSample]) * fadeLength
                               <= Abs(audioBuffer[c][endSample]) + fadeLength
              /\ \A i \in startSample..(endSample - 1), j \in startSample..(endSample - 1) :
                    i < j => IF type = "in"
                             THEN FadeMultiplier(i, startSample, fadeLength, type)
                                    <= FadeMultiplier(j, startSample, fadeLength, type)
                             ELSE FadeMultiplier(i, startSample, fadeLength, type)
                                    >= FadeMultiplier(j, startSample, fadeLength, type)]_vars

\* a fade out over three frames: full scale, then quieter, then quieter still
C18_Witness ==
    /\ last.op = "fadeOut"
    /\ last.ok
    /\ SampleOf(last.b) - SampleOf(last.a) = 3
    /\ Abs(audioBuffer[1][1]) = SampleUnit
    /\ Abs(audioBuffer[1][2]) < Abs(audioBuffer[1][1])
    /\ Abs(audioBuffer[1][3]) < Abs(audioBuffer[1][2])
    /\ audioBuffer[1][3] # 0

(***************************************************************************)
(* Claims on loading and playback, checked under PlaySpec                  *)
(***************************************************************************)
\* C13: whenever a new file has finished loading, from any prior state, the chunk
\* list is the single chunk {0, duration, id 0}, the id counter is 1, no chunk is
\* selected, the range selection is empty, seekPosition and pausedAtTime are 0 and
\* the player is not playing: its flag is off and no source of its own is sounding.
C13_LoadResetsAll ==
    (last.op = "handleFile") =>
        /\ chunks = InitialChunks(Duration)
        /\ nextChunkId = 1
        /\ selectedChunk = NoChunk
        /\ selection = EmptySelection
        /\ seekPosition = 0
        /\ pausedAtTime = 0
        /\ ~isPlaying
        /\ source.state # "playing"

\* C19: when play() starts a selection or a chunk, the current playback time at that
\* instant, pausedAtTime + (clock - playStartTime), is the pausedAtTime of before if
\* that lies within the range played, and the start of the range otherwise.
C19_PlayStartsAtPosition ==
    [][(/\ last'.op = "play"
        /\ isPlaying'
        /\ source'.state = "playing"
        /\ source'.kind \in {"selection", "chunk"})
       => (pausedAtTime' + (currentTime' - playStartTime')
              = IF pausedAtTime >= source'.start /\ pausedAtTime <= source'.end
                THEN pausedAtTime
                ELSE source'.start)]_vars

\* C20: when the source the player is playing reaches its end, then with loop mode
\* on a source is playing again from the start of what was playing and the player
\* is still playing; with loop mode off the player is idle, nothing is recorded as
\* playing and pausedAtTime is the start of the first chunk.
C20_NaturalEnd ==
    [][(last'.op = "ended" /\ isPlaying /\ source.state = "playing")
       => IF isLooping
          THEN /\ isPlaying'
               /\ source'.state = "playing"
               /\ pausedAtTime' + (currentTime' - playStartTime') = source.start
          ELSE /\ ~isPlaying'
               /\ source'.state # "playing"
               /\ currentlyPlayingChunk' = NoChunk
               /\ playingChunks' = <<>>
               /\ ~isPlayingSelection'
               /\ pausedAtTime' = StopPosition(chunks)]_vars

C22_StopLeavesIdle ==
    [][(last'.op = "stop")
       => (/\ ~isPlaying'
           /\ currentlyPlayingChunk' = NoChunk
           /\ playingChunks' = <<>>
           /\ ~isPlayingSelection'
           /\ loopSelection' = NullSelection
           /\ pausedAtTime' = StopPosition(chunks))]_vars

\* C23: seekToTime(time) sets pausedAtTime to the time clamped into [0, duration].
\* If the player was not playing nothing else happens and no playback is started.
\* If it was playing, the source is stopped and isPlaying is cleared, so that the
\* caller's play() goes ahead: either a new source plays from the clamped time (or
\* from the start of the range played when the time lies outside it), or nothing
\* could be started and the player is idle at the clamped time.
C23_SeekClampsAndReports ==
    [][(last'.op = "seek")
       => IF ~isPlaying
          THEN /\ pausedAtTime' = ClampTime(last'.a)
               /\ ~isPlaying'
               /\ source' = source
               /\ ended' = ended
          ELSE /\ source.state = "playing" => EndedEvent(source, currentTime) \in ended'
               /\ \/ /\ isPlaying'
                     /\ source'.state = "playing"
                     /\ pausedAtTime' \in {ClampTime(last'.a), source'.start}
                  \/ /\ ~isPlaying'
                     /\ source'.state # "playing"
                     /\ pausedAtTime' = ClampTime(last'.a)]_vars

(***************************************************************************)
(* Claims on the pointer handlers, checked under Spec                      *)
(***************************************************************************)
\* C24: a pointer-down at a time inside a non-empty range selection changes only the
\* seek position: the selection, the selected chunk, pausedAtTime and the dragging
\* flag stay as they were; and the pointer-move or pointer-up that follows it does
\* not start a drag and does not clear or change the selection.
C24_PressInsideOnlySeeks ==
    /\ [][(last'.op = "mousedown" /\ last'.ok)
          => (/\ seekPosition' = last'.a
              /\ selection' = selection
              /\ selectedChunk' = selectedChunk
              /\ pausedAtTime' = pausedAtTime
              /\ isDragging' = isDragging
              /\ dragStarted' = dragStarted)]_vars
    /\ [][(/\ last.op = "mousedown" /\ last.ok
           /\ last'.op = "mousemove" \/ (mouse = "canvas" /\ mouse' = "up"))
          => (/\ selection' = selection
              /\ ~dragStarted'
              /\ ~isDragging')]_vars

\* C25: a pointer-down outside the active selection starts a drag with the selection
\* collapsed to the press time, and a selected chunk stays selected; during the
\* drag a pointer-move clears the selected chunk exactly when it is the first to
\* differ from the press time by more than the threshold; a release before any such
\* move (a click) never leaves a non-empty selection that was not there before.
C25_PressOutsideStartsDrag ==
    /\ [][(last'.op = "mousedown" /\ ~ClickInSelection(selection, last'.a))
          => (/\ isDragging'
              /\ ~dragStarted'
              /\ selection' = [start |-> last'.a, end |-> last'.a]
              /\ initialClickTime' = last'.a
              /\ selectedChunk' = selectedChunk)]_vars
    /\ [][(last'.op = "mousemove" /\ isDragging /\ ~isResizing /\ ~dragStarted)
          => IF dragStarted'
             THEN /\ Abs(selection'.end - initialClickTime) > DragThreshold
                  /\ selectedChunk' = NoChunk
             ELSE /\ Abs(seekPosition' - initialClickTime) <= DragThreshold
                  /\ selectedChunk' = selectedChunk
                  /\ selection' = selection]_vars
    /\ [][(mouse # "up" /\ mouse' = "up" /\ isDragging /\ ~isResizing /\ ~dragStarted)
          => (HasSelection(selection') => selection' = selection)]_vars

\* C26: when a drag completes (a pointer-up or pointer-leave ends a drag that had
\* exceeded the threshold), the selection is the dragged one with start and end
\* swapped if needed, so start <= end, and seekPosition and pausedAtTime both equal
\* the selection start.
C26_DragEndNormalizes ==
    [][(isDragging /\ dragStarted /\ ~isDragging')
       => (/\ selection'.start = Min(selection.start, selection.end)
           /\ selection'.end = Max(selection.start, selection.end)
           /\ selection'.start <= selection'.end
           /\ seekPosition' = selection'.start
           /\ pausedAtTime' = selection'.start)]_vars

\* a drag from the right to the left has just completed
C26_Witness ==
    /\ justFinishedDrag
    /\ ~isDragging
    /\ initialClickTime = selection.end
    /\ selection.start < selection.end
    /\ seekPosition = selection.start


\* Claims on clicks, checked under ClickSpec

\* C27: a plain click at a time outside any existing selection leaves the range
\* selection empty and sets the seek position and pausedAtTime to the click time
\* clamped to [0, duration]
C27_ClickOutsideSeeks ==
    [][(last'.op = "clickAt" /\ last'.ok)
        => /\ selection' = EmptySelection
           /\ seekPosition' = ClampTime(last'.a)
           /\ pausedAtTime' = ClampTime(last'.a)]_vars

\* C27 for clicks while the player is not playing
C27_IdleClickOutsideSeeks ==
    [][(last'.op = "clickAt" /\ last'.ok /\ ~isPlaying)
        => /\ selection' = EmptySelection
           /\ seekPosition' = ClampTime(last'.a)
           /\ pausedAtTime' = ClampTime(last'.a)]_vars


\* Claims on the click event, checked under Spec

\* C28: a click with more than one chunk in the list, at a time inside a chunk and
\* not inside a non-empty range selection, makes a chunk that holds the click time
\* the selected chunk and leaves the range selection empty; with at most one chunk
\* in the list a click never changes the selected chunk
C28_ClickSelectsChunk ==
    [][(last'.op = "click")
        => /\ ( /\ ~justFinishedDrag
                /\ Len(chunks) > 1
                /\ \E i \in 1..Len(chunks) :
                       clickDue >= chunks[i].start /\ clickDue <= chunks[i].end
                /\ ~ClickInSelection(selection, clickDue) )
              => /\ \E i \in 1..Len(chunks) : selectedChunk' = chunks[i]
                 /\ clickDue >= selectedChunk'.start
                 /\ clickDue <= selectedChunk'.end
                 /\ selection' = EmptySelection
           /\ Len(chunks) <= 1 => selectedChunk' = selectedChunk /\ selection' = selection]_vars

C28_Witness ==
    /\ last.op = "click"
    /\ last.ok
    /\ Len(chunks) > 1
    /\ selectedChunk = chunks[2]
    /\ last.beforeSelected = chunks[1]
    /\ selection = EmptySelection


\* C29: after every move of a resize handle the selection is at least
\* MinSelectionWidth wide (the left handle never puts start above end - minWidth,
\* the right handle never puts end below start + minWidth) and both bounds lie
\* within [0, duration]
C29_ResizeKeepsWidth ==
    [][(last'.op = "mousemove" /\ isResizing)
        => /\ selection'.end - selection'.start >= MinSelectionWidth
           /\ selection'.start >= 0
           /\ selection'.end <= Duration]_vars

\* C29 for moves that find the selection at least MinSelectionWidth wide and
\* within [0, duration]
C29_WideResizeKeepsWidth ==
    [][(/\ last'.op = "mousemove"
        /\ isResizing
        /\ selection.end - selection.start >= MinSelectionWidth
        /\ selection.start >= 0
        /\ selection.end <= Duration)
        => /\ selection'.end - selection'.start >= MinSelectionWidth
           /\ selection'.start >= 0
           /\ selection'.end <= Duration]_vars

\* the width alone, whatever selection the move finds
C29_ResizeWidthAlone ==
    [][(last'.op = "mousemove" /\ isResizing)
        => selection'.end - selection'.start >= MinSelectionWidth]_vars


\* Claims on chunk ownership of a time, checked under CMSpec

\* chunk i ends where chunk i + 1 starts
Adjacent(i) == i < Len(chunks) /\ chunks[i].end = chunks[i + 1].start

PixelAvailable == ContainerWidth - Max(0, Len(chunks) - 1) * GapWidth

\* the right edge of chunk i, as a pixel multiplied by the total duration
RightEdge(i) ==
    ScaledX(chunks, i, PixelAvailable) + PixelAvailable * (chunks[i].end - chunks[i].start)

\* C30: a time on the boundary between two adjacent chunks belongs to the chunk
\* for which it is the start (start included, end excluded): the time-to-pixel
\* conversion places it at the left edge of the later chunk, the click lookup
\* finds the later chunk, and the pixel-to-time conversion does not count the
\* right edge pixel of a chunk as a pixel of that chunk
C30_HalfOpenOwnership ==
    [][\A i \in 1..Len(chunks) :
         /\ (last'.op = "getPixelPositionForTime" /\ Adjacent(i) /\ last'.a = chunks[i].end)
               => /\ last'.b = ScaledX(chunks, i + 1, PixelAvailable)
                  /\ ChunkAtTime(chunks, last'.a) = chunks[i + 1]
         /\ (/\ last'.op = "getTimeFromPixelPosition"
             /\ last'.a * TotalDuration(chunks) = RightEdge(i))
               => last'.b # chunks[i].end * PixelAvailable]_vars

\* C30 as the code has it: a chunk owns both its start and its end, and of two
\* chunks that hold a time the earlier one in the list owns it. A boundary time
\* is drawn at the right edge of the earlier chunk, the click lookup finds the
\* earlier chunk, and the pixel-to-time conversion turns the left edge pixel of
\* a chunk into its start and the right edge pixel into its end.
C30_ClosedOwnership ==
    [][\A i \in 1..Len(chunks) :
         /\ (last'.op = "getPixelPositionForTime" /\ Adjacent(i) /\ last'.a = chunks[i].end)
               => /\ last'.b = RightEdge(i)
                  /\ ChunkAtTime(chunks, last'.a) = chunks[i]
         /\ (/\ last'.op = "getTimeFromPixelPosition"
             /\ last'.a * TotalDuration(chunks) = RightEdge(i))
               => last'.b = chunks[i].end * PixelAvailable
         /\ (/\ last'.op = "getTimeFromPixelPosition"
             /\ last'.a * TotalDuration(chunks) = ScaledX(chunks, i, PixelAvailable))
               => last'.b = chunks[i].start * PixelAvailable]_vars

C30_Witness ==
    /\ last.op = "getPixelPositionForTime"
    /\ \E i \in 1..Len(chunks) :
          /\ Adjacent(i)
          /\ last.a = chunks[i].end
          /\ last.b = RightEdge(i)
          /\ last.b < ScaledX(chunks, i + 1, PixelAvailable)


(***************************************************************************)
(* HistoryManager (src/js/history-manager.js) on its own. The size limit   *)
(* maxHistorySize, 50 in the program, is scaled down to MaxHistorySize.     *)
(***************************************************************************)
MaxHistorySize == 3

\* the states handed to saveState, and the action descriptions
Snapshots ==
    { [audioBuffer |-> SilentBuffer(1, 1), chunks |-> InitialChunks(TicksPerSample),
       selection |-> EmptySelection, seekPosition |-> p, selectedChunk |-> NoChunk,
       isDragging |-> FALSE] : p \in 0..1 }

ActionNames == {"split", "delete"}

\* undo() and redo() returning null
NoState == [action |-> "null"]

\* deepCopyState(state): the fields it copies; action is assigned by saveState or
\* copied from a stored state, the timestamp is left out
deepCopyState(state, action) ==
    [audioBuffer |-> state.audioBuffer,
     chunks |-> state.chunks,
     selection |-> [start |-> state.selection.start, end |-> state.selection.end],
     seekPosition |-> state.seekPosition,
     selectedChunk |-> state.selectedChunk,
     action |-> action]

canUndo == currentIndex > 0

\* no redo at all
canRedoNever == FALSE
canRedo == currentIndex < Len(history) - 1

\* the whole history, redo entries included
KeptHistoryWithRedo == history
\* history.slice(0, currentIndex + 1)
KeptHistory == SubSeq(history, 1, currentIndex + 1)

\* no size limit
LimitedUnshifted(pushed) == pushed
\* history.shift() when the length exceeds maxHistorySize
Limited(pushed) == IF Len(pushed) > MaxHistorySize THEN Tail(pushed) ELSE pushed

HistoryCall(op, result, ok) ==
    [op |-> op, a |-> currentIndex, b |-> result, ok |-> ok, before |-> history,
     beforeSelected |-> NoChunk, beforeNextId |-> 0]

\* saveState(state, action)
HSave ==
    \E state \in Snapshots, action \in ActionNames :
        LET pushed == Append(KeptHistory, deepCopyState(state, action))
        IN  /\ history' = Limited(pushed)
            /\ currentIndex' = currentIndex + 1 - (Len(pushed) - Len(Limited(pushed)))
            /\ last' = HistoryCall("saveState", deepCopyState(state, action), TRUE)
            /\ UNCHANGED <<cmVars, edVars, audioBuffer, plVars, combinedBuffer, exVars>>

\* undo()
HUndo ==
    /\ IF canUndo
       THEN /\ currentIndex' = currentIndex - 1
            /\ last' = HistoryCall("undo",
                                   deepCopyState(history[currentIndex],
                                                 history[currentIndex].action), TRUE)
       ELSE /\ currentIndex' = currentIndex
            /\ last' = HistoryCall("undo", NoState, FALSE)
    /\ UNCHANGED <<history, cmVars, edVars, audioBuffer, plVars, combinedBuffer, exVars>>

\* redo()
HRedo ==
    /\ IF canRedo
       THEN /\ currentIndex' = currentIndex + 1
            /\ last' = HistoryCall("redo",
                                   deepCopyState(history[currentIndex + 2],
                                                 history[currentIndex + 2].action), TRUE)
       ELSE /\ currentIndex' = currentIndex
            /\ last' = HistoryCall("redo", NoState, FALSE)
    /\ UNCHANGED <<history, cmVars, edVars, audioBuffer, plVars, combinedBuffer, exVars>>

\* clear()
HClear ==
    /\ history' = <<>>
    /\ currentIndex' = -1
    /\ last' = HistoryCall("clear", NoState, TRUE)
    /\ UNCHANGED <<cmVars, edVars, audioBuffer, plVars, combinedBuffer, exVars>>

HistNext == HSave \/ HUndo \/ HRedo \/ HClear

HistSpec == Init /\ [][HistNext]_vars


\* Claims on the HistoryManager, checked under HistSpec

\* C35: -1 <= currentIndex <= history.length - 1 and history.length <= maxHistorySize
\* in every state; a saveState that would exceed the limit drops the oldest entry,
\* and currentIndex points at the entry just saved
C35_HistoryBounds ==
    /\ [](/\ -1 <= currentIndex
          /\ currentIndex <= Len(history) - 1
          /\ Len(history) <= MaxHistorySize)
    /\ [][(last'.op = "saveState")
           => /\ history'[currentIndex' + 1] = last'.b
              /\ (currentIndex + 1 = MaxHistorySize)
                   => history' = Append(Tail(history), last'.b)]_vars

C35_Witness ==
    /\ last.op = "saveState"
    /\ last.a = MaxHistorySize - 1
    /\ Len(last.before) = MaxHistorySize
    /\ Len(history) = MaxHistorySize
    /\ currentIndex = MaxHistorySize - 1
    /\ history[MaxHistorySize] = last.b
    /\ history[1] = last.before[2]

\* C36: immediately after every saveState canRedo() is false, the saved state is the
\* last entry, and the entries up to the previous current position are unchanged,
\* except for the oldest one when the size limit is hit
C36_SaveDropsRedo ==
    [][(last'.op = "saveState")
        => /\ ~canRedo'
           /\ history'[Len(history')] = last'.b
           /\ LET dropped == IF currentIndex + 1 = MaxHistorySize THEN 1 ELSE 0
              IN  /\ Len(history') = currentIndex + 2 - dropped
                  /\ \A k \in 1..(currentIndex + 1 - dropped) :
                        history'[k] = history[k + dropped]]_vars

\* a saveState after an undo: the undone entry is gone
C36_Witness ==
    /\ last.op = "saveState"
    /\ last.a + 1 < Len(last.before)
    /\ Len(history) = last.a + 2
    /\ last.a >= 0
    /\ history[Len(history)] # last.before[Len(history)]
    /\ ~canRedo

\* C37: undo returns null and changes nothing when currentIndex <= 0, redo returns
\* null and changes nothing when currentIndex is the last index; otherwise undo
\* followed by redo, and redo followed by undo, restores currentIndex and the
\* history, and the second call returns the state that was current before the pair
C37_UndoRedoInverse ==
    [][/\ (last'.op = "undo" /\ currentIndex <= 0)
          => last'.b = NoState /\ UNCHANGED hmVars
       /\ (last'.op = "redo" /\ currentIndex = Len(history) - 1)
          => last'.b = NoState /\ UNCHANGED hmVars
       /\ (last'.op = "undo" /\ currentIndex > 0)
          => last'.b # NoState /\ currentIndex' = currentIndex - 1 /\ history' = history
       /\ (last'.op = "redo" /\ currentIndex < Len(history) - 1)
          => last'.b # NoState /\ currentIndex' = currentIndex + 1 /\ history' = history
       /\ (/\ last.op \in {"undo", "redo"}
           /\ last.ok
           /\ last'.op \in {"undo", "redo"}
           /\ last'.op # last.op)
          => /\ currentIndex' = last.a
             /\ history' = last.before
             /\ last'.b = last.before[last.a + 1]]_vars

\* an undo and the redo that took it back
C37_Witness ==
    /\ last.op = "redo"
    /\ last.ok
    /\ last.a = currentIndex - 1
    /\ currentIndex = Len(history) - 1
    /\ Len(history) >= 2
    /\ last.b = history[currentIndex + 1]


\* Claims on stale callbacks and positions, checked under PlaySpec

\* C38: the ended callback of a source that was stopped or replaced never affects
\* a later playback: delivered while a playback is running it leaves the source,
\* isPlaying and pausedAtTime alone, and no two started sources play at a time
C38_StaleEndedHarmless ==
    /\ [][(last'.op = "endedLate" /\ isPlaying)
           => /\ source' = source
              /\ isPlaying'
              /\ pausedAtTime' = pausedAtTime]_vars
    /\ [](source.state = "playing" => \A e \in ended : e.at <= currentTime)


\* C39: whenever the player is not playing, pausedAtTime lies within
\* [0, duration of the current buffer]
C39_PausedAtTimeInRange ==
    ~isPlaying => (0 <= pausedAtTime /\ pausedAtTime <= Duration)


\* Claims on the chunk list and the buffer, checked under Spec

\* C40: after any sequence of splits and deletes the end of the last chunk equals
\* the duration of the current buffer
C40_ChunksMatchBuffer ==
    (audioLen > 0 /\ Len(chunks) > 0) => chunks[Len(chunks)].end = Duration

\* C40 for deletes whose bounds are multiples of a frame
C40_AlignedDeleteMatches ==
    [][(/\ last'.op \in {"deleteRange", "deleteChunk"}
        /\ last'.ok
        /\ Len(chunks) > 0
        /\ chunks[Len(chunks)].end = Duration
        /\ last'.a % TicksPerSample = 0
        /\ last'.b % TicksPerSample = 0
        /\ Len(chunks') > 0)
        => chunks'[Len(chunks')].end = Duration']_vars


(***************************************************************************)
(* Claims on the combined buffer, checked under BufSpec                    *)
(***************************************************************************)
Combines == {"createCombinedBuffer", "createCombinedChunksBuffer"}

\* the samples of the chunks' frame ranges [floor(start * sampleRate),
\* floor(end * sampleRate)) one after the other, the first range starting at
\* firstStart
RECURSIVE Concatenation(_, _, _)
Concatenation(data, cs, firstStart) ==
    IF Len(cs) = 0 THEN <<>>
    ELSE Samples(data, SampleOf(firstStart), SampleOf(Head(cs).end))
            \o (IF Len(cs) = 1 THEN <<>> ELSE Concatenation(data, Tail(cs), cs[2].start))

\* C34: the combined buffer built from a chunk list is the concatenation of the
\* chunks' sample ranges in list order: every channel has as many frames as the
\* sum over the chunks of floor(end * sampleRate) - floor(start * sampleRate)
\* and holds exactly those samples, none dropped and none replaced by padding,
\* also when the first range starts at an offset inside the first chunk.
C34_CombinedIsConcatenation ==
    [][(last'.op \in Combines /\ last'.ok)
       => LET cs == last'.before
              firstStart == cs[1].start + last'.a
          IN  /\ NumChannels(combinedBuffer') = NumChannels(audioBuffer)
              /\ \A c \in 1..NumChannels(audioBuffer) :
                    combinedBuffer'[c] = Concatenation(audioBuffer[c], cs, firstStart)]_vars

\* the same for chunk bounds and a start offset that fall on frame boundaries
C34_AlignedIsConcatenation ==
    [][(/\ last'.op \in Combines
        /\ last'.a % TicksPerSample = 0
        /\ \A i \in 1..Len(last'.before) :
              /\ last'.before[i].start % TicksPerSample = 0
              /\ last'.before[i].end % TicksPerSample = 0)
       => LET cs == last'.before
              firstStart == cs[1].start + last'.a
          IN  \/ ~last'.ok /\ firstStart = cs[Len(cs)].end
              \/ /\ last'.ok
                 /\ NumChannels(combinedBuffer') = NumChannels(audioBuffer)
                 /\ \A c \in 1..NumChannels(audioBuffer) :
                       combinedBuffer'[c] = Concatenation(audioBuffer[c], cs, firstStart)]_vars

\* a combined buffer of two chunks of one frame each, cut on a frame boundary
C34_AlignedWitness ==
    /\ last.op = "createCombinedBuffer"
    /\ last.ok
    /\ Len(last.before) = 2
    /\ last.before[1].end = TicksPerSample
    /\ FrameLength(combinedBuffer) = 2
    /\ combinedBuffer[1][1] # combinedBuffer[1][2]


(***************************************************************************)
(* Export: handleExportConfirm, exportAudio, initMp3Worker and             *)
(* sendMp3WorkerMessage of the editor, and the encoder worker. A step of   *)
(* the main thread is one task with the microtasks it queues: the          *)
(* continuation of an await runs in the step that settles the promise.     *)
(***************************************************************************)
WorkerTimeout == 2      \* the 30000 ms of the request timeout, in ticks
MaxRequests == 3
MaxWorkers == 2
ExportFrames == 2
Formats == {"wav", "mp3"}

\* the Float32Array copies of exportAudio: channelData[i] = sourceData[startFrame + i] || 0
ExtractChannels(buf, startFrame, frameCount) ==
    [c \in 1..NumChannels(buf) |->
        [i \in 1..frameCount |->
            IF startFrame + i >= 1 /\ startFrame + i <= Len(buf[c])
            THEN buf[c][startFrame + i] ELSE 0]]

\* the channels the worker reads from an encode message: the structured clone
\* that postMessage made of audioChannels, whatever the live buffer holds now
MessageChannelsLive(copy, live, startFrame, frameCount) ==
    ExtractChannels(live, startFrame, frameCount)
MessageChannels(copy, live, startFrame, frameCount) == copy

\* left[i] = Math.max(-32768, Math.min(32767, channels[0][i] * 32767)) stored
\* in an Int16Array, which drops the fraction
ToInt16(x) ==
    LET scaled == x * 32767
        whole == IF scaled >= 0 THEN scaled \div SampleUnit
                 ELSE 0 - ((0 - scaled) \div SampleUnit)
    IN  Max(-32768, Min(32767, whole))

\* the samples encoder.encode hands to the LAME encoder: the left channel and,
\* with more than one channel, the right one
Encoded(channels) ==
    [c \in 1..Min(2, Len(channels)) |->
        [i \in 1..Len(channels[1]) |-> ToInt16(channels[c][i])]]

\* the promise and the closure that sendMp3WorkerMessage creates
NewRequest(type, worker, channels) ==
    [type |-> type, worker |-> worker, state |-> "pending", timer |-> WorkerTimeout,
     listening |-> TRUE, channels |-> channels]

Progress(worker) ==
    [worker |-> worker, id |-> 0, type |-> "progress", success |-> FALSE, data |-> <<>>]
Response(worker, id, type, success, data) ==
    [worker |-> worker, id |-> id, type |-> type, success |-> success, data |-> data]

\* initMp3Worker past its first line: new Worker(...) and
\* sendMp3WorkerMessage('init'), up to the await
StartWorker ==
    /\ mp3Worker' = Len(encoder) + 1
    /\ encoder' = Append(encoder, FALSE)
    /\ requests' = Append(requests, NewRequest("init", Len(encoder) + 1, <<>>))
    /\ toWorker' = Append(toWorker, Len(requests) + 1)
    /\ initAwaits' = Len(requests) + 1

\* exportAudio's catch block and handleExportConfirm's finally block
ExportFailed == [export EXCEPT !.pc = "idle", !.req = 0, !.outcome = "failed"]

\* exportAudio from the encode result to downloadBlob, and the finally block
ExportSaved(data) ==
    [export EXCEPT !.pc = "idle", !.req = 0, !.outcome = "saved", !.data = data]

\* what runs after request r is settled with reqs as the requests: the rest of
\* initMp3Worker when it awaited r, then the rest of exportAudio when it awaited
\* that initMp3Worker call; or the rest of exportAudio when it awaited r
AfterSettled(r, ok, data, reqs) ==
    IF r = initAwaits
    THEN /\ mp3Worker' = IF ok THEN mp3Worker ELSE 0
         /\ mp3WorkerReady' = ok
         /\ initAwaits' = 0
         /\ IF export.pc = "init"
            THEN IF ok
                 THEN \* sendMp3WorkerMessage('encode', {channels: audioChannels, ...})
                      /\ requests' = Append(reqs, NewRequest("encode", mp3Worker,
                                                             export.channels))
                      /\ toWorker' = Append(toWorker, Len(reqs) + 1)
                      /\ export' = [export EXCEPT !.pc = "encode", !.req = Len(reqs) + 1]
                      /\ UNCHANGED exportConfirmDisabled
                 ELSE \* sendMp3WorkerMessage rejects: MP3 worker not initialized
                      /\ requests' = reqs
                      /\ export' = ExportFailed
                      /\ exportConfirmDisabled' = FALSE
                      /\ UNCHANGED toWorker
            ELSE /\ requests' = reqs
                 /\ UNCHANGED <<toWorker, export, exportConfirmDisabled>>
    ELSE IF export.pc = "encode" /\ r = export.req
    THEN /\ requests' = reqs
         /\ export' = IF ok THEN ExportSaved(data) ELSE ExportFailed
         /\ exportConfirmDisabled' = FALSE
         /\ UNCHANGED <<mp3Worker, mp3WorkerReady, initAwaits, toWorker>>
    ELSE /\ requests' = reqs
         /\ UNCHANGED <<mp3Worker, mp3WorkerReady, initAwaits, toWorker, export,
                        exportConfirmDisabled>>

edState == <<cmVars, edVars, audioBuffer, plVars>>

\* onFormatChange('mp3'): initMp3Worker() is called and not awaited
SelectMp3 ==
    /\ audioLen > 0
    /\ ~(mp3Worker # 0 \/ mp3WorkerReady)
    /\ Len(encoder) < MaxWorkers
    /\ Len(requests) < MaxRequests
    /\ StartWorker
    /\ last' = Edit("initMp3Worker", 0, 0, TRUE)
    /\ UNCHANGED <<mp3WorkerReady, toMain, export, exportConfirmDisabled>>
    /\ UNCHANGED <<hmVars, combinedBuffer, edState>>

\* a click on exportConfirm: handleExportConfirm and exportAudio up to the first
\* await that does not return at once, or to the end
ExportConfirm ==
    \E format \in Formats :
        LET hasRegionSelection == selection.start # selection.end
            hasChunkSelection == selectedChunk # NoChunk
            start == IF hasRegionSelection THEN Min(selection.start, selection.end)
                     ELSE IF hasChunkSelection THEN selectedChunk.start ELSE 0
            end == IF hasRegionSelection THEN Max(selection.start, selection.end)
                   ELSE IF hasChunkSelection THEN selectedChunk.end
                   ELSE FrameLength(audioBuffer) * TicksPerSample
            startFrame == SampleOf(start)
            endFrame == SampleOf(end)
            frameCount == endFrame - startFrame
            audioChannels == ExtractChannels(audioBuffer, startFrame, frameCount)
            started == [pc |-> "idle", req |-> 0, outcome |-> "none", buffer |-> audioBuffer,
                        startFrame |-> startFrame, frameCount |-> frameCount,
                        channels |-> audioChannels, data |-> <<>>]
        IN  /\ audioLen > 0
            /\ ~exportConfirmDisabled
            /\ IF format = "wav"
               THEN \* createBuffer throws when frameCount is 0
                    /\ export' = IF CreateBufferOk(frameCount)
                                 THEN [started EXCEPT !.outcome = "saved",
                                                      !.data = audioChannels]
                                 ELSE [started EXCEPT !.outcome = "failed"]
                    /\ UNCHANGED <<mp3Worker, mp3WorkerReady, encoder, requests, toWorker,
                                   initAwaits, exportConfirmDisabled>>
               ELSE IF mp3WorkerReady \/ mp3Worker # 0
               THEN \* initMp3Worker, when called, returns at its first line
                    /\ Len(requests) < MaxRequests
                    /\ requests' = Append(requests, NewRequest("encode", mp3Worker,
                                                               audioChannels))
                    /\ toWorker' = Append(toWorker, Len(requests) + 1)
                    /\ export' = [started EXCEPT !.pc = "encode", !.req = Len(requests) + 1]
                    /\ exportConfirmDisabled' = TRUE
                    /\ UNCHANGED <<mp3Worker, mp3WorkerReady, encoder, initAwaits>>
               ELSE /\ Len(encoder) < MaxWorkers
                    /\ Len(requests) + 1 < MaxRequests
                    /\ StartWorker
                    /\ export' = [started EXCEPT !.pc = "init"]
                    /\ exportConfirmDisabled' = TRUE
                    /\ UNCHANGED mp3WorkerReady
            /\ last' = Edit("exportAudio", start, end, TRUE)
            /\ UNCHANGED toMain
            /\ UNCHANGED <<hmVars, combinedBuffer, edState>>

\* the position in toWorker of the oldest message posted to worker w, 0 for none
OldestFor(w) ==
    LET mine == { i \in 1..Len(toWorker) : requests[toWorker[i]].worker = w }
    IN  IF mine = {} THEN 0 ELSE CHOOSE i \in mine : \A j \in mine : i <= j

Without(seq, pos) == SubSeq(seq, 1, pos - 1) \o SubSeq(seq, pos + 1, Len(seq))

\* self.onmessage of a worker on the oldest message posted to it; importScripts
\* in initEncoder loads the encoder or throws
WorkerStep ==
    \E w \in 1..Len(encoder) :
        LET pos == OldestFor(w)
            id == toWorker[pos]
            req == requests[id]
        IN  /\ pos # 0
            /\ toWorker' = Without(toWorker, pos)
            /\ IF req.type = "init"
               THEN \E loaded \in BOOLEAN :
                       /\ encoder[w] => loaded
                       /\ encoder' = [encoder EXCEPT ![w] = loaded]
                       /\ toMain' = Append(toMain,
                                           IF loaded
                                           THEN Response(w, id, "init-complete", TRUE, <<>>)
                                           ELSE Response(w, id, "error", FALSE, <<>>))
               ELSE /\ toMain' =
                          IF encoder[w]
                          THEN toMain \o
                               << Progress(w), Progress(w),
                                  Response(w, id, "encode-complete", TRUE,
                                           Encoded(MessageChannels(req.channels, audioBuffer,
                                                                   export.startFrame,
                                                                   export.frameCount))) >>
                          ELSE Append(toMain, Response(w, id, "error", FALSE, <<>>))
                    /\ UNCHANGED encoder
            /\ last' = Edit("onmessage", id, 0, encoder'[w])
            /\ UNCHANGED <<mp3Worker, mp3WorkerReady, requests, initAwaits, export,
                           exportConfirmDisabled>>
            /\ UNCHANGED <<hmVars, combinedBuffer, edState>>

\* the message event of the oldest undelivered message: handleMp3WorkerMessage,
\* which touches the progress display only, and the handleResponse listeners on
\* the worker that posted it
Deliver ==
    LET msg == Head(toMain)
        matching == { r \in 1..Len(requests) :
                        /\ requests[r].listening
                        /\ requests[r].worker = msg.worker
                        /\ msg.id = r }
    IN  /\ toMain # <<>>
        /\ toMain' = Tail(toMain)
        /\ last' = Edit("message", msg.id, msg.worker, msg.success)
        /\ IF matching = {}
           THEN UNCHANGED <<mp3Worker, mp3WorkerReady, requests, toWorker, initAwaits,
                            export, exportConfirmDisabled>>
           ELSE LET r == CHOOSE r \in matching : TRUE
                    cleared == [requests EXCEPT ![r].timer = -1]
                    removed == [cleared EXCEPT ![r].listening = (mp3Worker # cleared[r].worker)]
                    settled == [removed EXCEPT ![r].state = IF msg.success THEN "resolved"
                                                            ELSE "rejected"]
                IN  IF mp3Worker = 0
                    THEN \* this.mp3Worker.removeEventListener throws a TypeError
                         /\ requests' = cleared
                         /\ UNCHANGED <<mp3Worker, mp3WorkerReady, toWorker, initAwaits,
                                        export, exportConfirmDisabled>>
                    ELSE IF requests[r].state = "pending"
                    THEN AfterSettled(r, msg.success, msg.data, settled)
                    ELSE /\ requests' = removed
                         /\ UNCHANGED <<mp3Worker, mp3WorkerReady, toWorker, initAwaits,
                                        export, exportConfirmDisabled>>
        /\ UNCHANGED encoder
        /\ UNCHANGED <<hmVars, combinedBuffer, edState>>

\* the setTimeout callback of a request: reject(new Error('MP3 worker timeout'))
Timeout ==
    \E r \in 1..Len(requests) :
        /\ requests[r].timer = 0
        /\ LET fired == [requests EXCEPT ![r].timer = -1]
               settled == [fired EXCEPT ![r].state = "rejected"]
           IN  IF requests[r].state = "pending"
               THEN AfterSettled(r, FALSE, <<>>, settled)
               ELSE /\ requests' = fired
                    /\ UNCHANGED <<mp3Worker, mp3WorkerReady, toWorker, initAwaits, export,
                                   exportConfirmDisabled>>
        /\ last' = Edit("timeout", r, 0, FALSE)
        /\ UNCHANGED <<encoder, toMain>>
        /\ UNCHANGED <<hmVars, combinedBuffer, edState>>

\* time passes for the request timeouts that are set; a timeout that is due
\* fires before more time passes
ExTick ==
    /\ \E r \in 1..Len(requests) : requests[r].timer > 0
    /\ \A r \in 1..Len(requests) : requests[r].timer # 0
    /\ requests' = [r \in 1..Len(requests) |->
                       IF requests[r].timer > 0
                       THEN [requests[r] EXCEPT !.timer = @ - 1] ELSE requests[r]]
    /\ last' = Edit("tick", 0, 0, TRUE)
    /\ UNCHANGED <<mp3Worker, mp3WorkerReady, encoder, toWorker, toMain, initAwaits, export,
                   exportConfirmDisabled>>
    /\ UNCHANGED <<hmVars, combinedBuffer, edState>>

\* a loaded file of drawn samples, with or without a range selection
ExportInit ==
    /\ audioBuffer \in [1..1 -> [1..ExportFrames -> {20, 600}]]
    /\ audioLen = ExportFrames
    /\ chunks = InitialChunks(ExportFrames * TicksPerSample)
    /\ selectedChunk = NoChunk
    /\ nextChunkId = 1
    /\ \E f1 \in 0..ExportFrames, f2 \in 0..ExportFrames :
          /\ f1 < f2 \/ (f1 = 0 /\ f2 = 0)
          /\ selection = [start |-> f1 * TicksPerSample, end |-> f2 * TicksPerSample]
    /\ seekPosition = 0
    /\ pausedAtTime = 0
    /\ PointerIdle
    /\ PlayerIdle
    /\ ServicesIdle
    /\ last = NoLast

ExportNext ==
    \/ SelectMp3
    \/ ExportConfirm
    \/ WorkerStep
    \/ Deliver
    \/ Timeout
    \/ ExTick

ExportSpec == ExportInit /\ [][ExportNext]_vars

\* exports that are answered before a tick passes, among seeks, stops and
\* edits of the loaded buffer
ExportEditNext ==
    \/ SelectMp3
    \/ ExportConfirm
    \/ WorkerStep
    \/ Deliver
    \/ KeyEffect
    \/ KeyDelete
    \/ KeySeek
    \/ KeyEscape

ExportEditSpec == ExportInit /\ [][ExportEditNext]_vars

\* timers fire and posted messages are delivered: the event loop of the main
\* thread runs every task that is due; a worker may take any time
FairExportSpec ==
    ExportSpec /\ WF_vars(Timeout) /\ WF_vars(ExTick) /\ WF_vars(Deliver)


(***************************************************************************)
(* Claims on the encoder worker requests, checked under FairExportSpec     *)
(***************************************************************************)
Pending(r) == r <= Len(requests) /\ requests[r].state = "pending"
Settled(r) == r <= Len(requests) /\ requests[r].state # "pending"

\* a request is settled only by the response that carries its id, resolved when
\* that response reports success and rejected when it reports failure, or
\* rejected by its own timeout when the wait is over; no other message and no
\* progress message settles it
C31_SettledByOwnResponse ==
    [][\A r \in 1..Len(requests) :
          (requests[r].state = "pending" /\ requests'[r].state # "pending")
          => \/ /\ last'.op = "message"
                /\ last'.a = r
                /\ last'.ok = (requests'[r].state = "resolved")
             \/ /\ last'.op = "timeout"
                /\ last'.a = r
                /\ requests[r].timer = 0
                /\ requests'[r].state = "rejected"]_vars

\* a request that is sent does not stay pending
C31_Terminates == \A r \in 1..MaxRequests : Pending(r) ~> Settled(r)

\* C31: every request sent to the encoder worker terminates within the
\* upper-bound wait: its promise resolves with the response whose id is the
\* request id and whose success is true, rejects when the response with that id
\* reports failure, or rejects when the timeout fires; a response with another
\* id or a progress message, which has no id, never settles it.
C31_RequestSettles == C31_SettledByOwnResponse /\ C31_Terminates


(***************************************************************************)
(* Claim on the samples of an export, checked under ExportEditSpec         *)
(***************************************************************************)
\* the samples of the range chosen when the running export started, as encoded
EncodedAtStart == Encoded(ExtractChannels(export.buffer, export.startFrame, export.frameCount))

\* C32: the samples handed to an encode are a detached copy of the chosen range
\* taken when the export starts: an encode answered while the export is in
\* flight encodes the samples the range had at the start, whatever seek, stop,
\* delete, fade, silence or normalize came in between, and none of these steps
\* touches the request, the messages in flight or the running export.
C32_EncodesDetachedCopy ==
    /\ [][(/\ last'.op = "onmessage"
           /\ last'.ok
           /\ export.pc = "encode"
           /\ export.req = last'.a)
          => toMain'[Len(toMain')].data = EncodedAtStart]_vars
    /\ [][(/\ export.pc = "encode"
           /\ last'.op \in Effects \cup {"deleteRange", "deleteChunk", "seek", "stop"})
          => UNCHANGED exVars]_vars

\* an encode answered after the live buffer was edited: the encoded samples
\* are those of the start and differ from what the live buffer now holds
C32_Witness ==
    /\ last.op = "onmessage"
    /\ last.ok
    /\ export.pc = "encode"
    /\ export.req = last.a
    /\ audioBuffer # export.buffer
    /\ toMain[Len(toMain)].data = EncodedAtStart
    /\ EncodedAtStart
          # Encoded(ExtractChannels(audioBuffer, export.startFrame, export.frameCount))

(***************************************************************************)
(* Claim on failed exports, checked under ExportSpec                       *)
(***************************************************************************)
\* the awaited request of the running export fails in this step: the response
\* with its id reports failure, or its timeout fires
RequestOfExportFails ==
    LET awaited == IF export.pc = "encode" THEN export.req
                   ELSE IF export.pc = "init" THEN initAwaits ELSE 0
    IN  /\ awaited # 0
        /\ last'.a = awaited
        /\ \/ last'.op = "message" /\ ~last'.ok
           \/ last'.op = "timeout"

\* C33: when an export fails, by an encoder error or a timeout, the audio
\* buffer, the chunk list, the selection, the selected chunk and the playback
\* position are left as they were and the export control is enabled again.
C33_FailedExportRestores ==
    [][(RequestOfExportFails \/ (export' # export /\ export'.outcome = "failed"))
       => /\ export'.pc = "idle"
          /\ export'.outcome = "failed"
          /\ ~exportConfirmDisabled'
          /\ UNCHANGED <<audioBuffer, chunks, selection, selectedChunk, pausedAtTime,
                         seekPosition>>]_vars

\* the failures that exportAudio catches leave the state alone and enable the
\* control
C33_CaughtFailureRestores ==
    [][(export' # export /\ export'.outcome = "failed")
       => /\ export'.pc = "idle"
          /\ ~exportConfirmDisabled'
          /\ UNCHANGED <<audioBuffer, chunks, selection, selectedChunk, pausedAtTime,
                         seekPosition>>]_vars

====
